---- MODULE Spec2Model ----
(***************************************************************************)
(* Asset Extraction Engine of figma-to-code: token extractor, component    *)
(* parser, layout analyzer and the orchestrator that runs them.            *)
(*                                                                         *)
(* Representation                                                          *)
(*   - a Python str is a sequence of one-character strings, so that        *)
(*     lower(), strip(), startswith(), `in`, join and f-strings are        *)
(*     computed as the code computes them;                                 *)
(*   - a Figma node (a Python dict) is a record; "key in node" is          *)
(*     key \in DOMAIN node and node.get(key, d) is Get(node, key, d);      *)
(*   - a Python dict with computed keys is a function whose domain is the  *)
(*     set of keys; a list is a sequence; a set is a set;                  *)
(*   - a colour channel (a float in 0..1) is given in thousandths;         *)
(*     a font size (a float) is given in tenths of a pixel; positions,     *)
(*     sizes, spacings and corner radii are whole pixels.                  *)
(***************************************************************************)
EXTENDS Integers, Sequences, FiniteSets, TLC

VARIABLES figma_file, doc, pc, te, cp, la, extraction_results, status, history,
          cache_files, clock, last_set, last_call

extractor_vars == <<figma_file, doc, pc, te, cp, la, extraction_results, status, history>>

cache_vars == <<cache_files, clock, last_set, last_call>>

vars == <<extractor_vars, cache_vars>>

(***************************************************************************)
(* Bounds of the model                                                     *)
(***************************************************************************)
MaxRuns == 2

\* the last reading of time.time(), in ticks
MaxClock == 2

\* the ttl the client hands to FigmaCache.set, in ticks
CacheTtl == 1

(***************************************************************************)
(* String literals                                                         *)
(***************************************************************************)
s_DOCUMENT == <<"D", "O", "C", "U", "M", "E", "N", "T">>
s_PAGE == <<"P", "A", "G", "E">>
s_CANVAS == <<"C", "A", "N", "V", "A", "S">>
s_FRAME == <<"F", "R", "A", "M", "E">>
s_GROUP == <<"G", "R", "O", "U", "P">>
s_COMPONENT == <<"C", "O", "M", "P", "O", "N", "E", "N", "T">>
s_INSTANCE == <<"I", "N", "S", "T", "A", "N", "C", "E">>
s_TEXT == <<"T", "E", "X", "T">>
s_RECTANGLE == <<"R", "E", "C", "T", "A", "N", "G", "L", "E">>
s_SOLID == <<"S", "O", "L", "I", "D">>
s_GRADIENT_LINEAR == <<"G", "R", "A", "D", "I", "E", "N", "T", "_", "L", "I", "N", "E", "A", "R">>
s_white == <<"w", "h", "i", "t", "e">>
s_black == <<"b", "l", "a", "c", "k">>
s_gray == <<"g", "r", "a", "y">>
s_gray_50 == <<"g", "r", "a", "y", "-", "5", "0">>
s_gray_100 == <<"g", "r", "a", "y", "-", "1", "0", "0">>
s_gray_200 == <<"g", "r", "a", "y", "-", "2", "0", "0">>
s_gray_300 == <<"g", "r", "a", "y", "-", "3", "0", "0">>
s_gray_600 == <<"g", "r", "a", "y", "-", "6", "0", "0">>
s_gray_900 == <<"g", "r", "a", "y", "-", "9", "0", "0">>
s_yellow == <<"y", "e", "l", "l", "o", "w">>
s_orange == <<"o", "r", "a", "n", "g", "e">>
s_purple == <<"p", "u", "r", "p", "l", "e">>
s_red == <<"r", "e", "d">>
s_lime == <<"l", "i", "m", "e">>
s_green == <<"g", "r", "e", "e", "n">>
s_pink == <<"p", "i", "n", "k">>
s_cyan == <<"c", "y", "a", "n">>
s_blue == <<"b", "l", "u", "e">>
s_unknown == <<"u", "n", "k", "n", "o", "w", "n">>
s_danger == <<"d", "a", "n", "g", "e", "r">>
s_success == <<"s", "u", "c", "c", "e", "s", "s">>
s_warning == <<"w", "a", "r", "n", "i", "n", "g">>
s_info == <<"i", "n", "f", "o">>
s_primary == <<"p", "r", "i", "m", "a", "r", "y">>
s_secondary == <<"s", "e", "c", "o", "n", "d", "a", "r", "y">>
s_facebook == <<"f", "a", "c", "e", "b", "o", "o", "k">>
s_brand_ == <<"b", "r", "a", "n", "d", "-">>
s__ff0000 == <<"#", "f", "f", "0", "0", "0", "0">>
s__dc3545 == <<"#", "d", "c", "3", "5", "4", "5">>
s__28a745 == <<"#", "2", "8", "a", "7", "4", "5">>
s__28b446 == <<"#", "2", "8", "b", "4", "4", "6">>
s__ffc107 == <<"#", "f", "f", "c", "1", "0", "7">>
s__fbbb00 == <<"#", "f", "b", "b", "b", "0", "0">>
s__007bff == <<"#", "0", "0", "7", "b", "f", "f">>
s__6257db == <<"#", "6", "2", "5", "7", "d", "b">>
s__6c757d == <<"#", "6", "c", "7", "5", "7", "d">>
s__3b5999 == <<"#", "3", "b", "5", "9", "9", "9">>
s__ffffff == <<"#", "f", "f", "f", "f", "f", "f">>
s__000000 == <<"#", "0", "0", "0", "0", "0", "0">>
s_Inter == <<"I", "n", "t", "e", "r">>
s_heading == <<"h", "e", "a", "d", "i", "n", "g">>
s_subheading == <<"s", "u", "b", "h", "e", "a", "d", "i", "n", "g">>
s_body == <<"b", "o", "d", "y">>
s_caption == <<"c", "a", "p", "t", "i", "o", "n">>

(***************************************************************************)
(* Python built-ins on str, list, set and dict                             *)
(***************************************************************************)
LowerOf == ("A" :> "a") @@ ("B" :> "b") @@ ("C" :> "c") @@ ("D" :> "d") @@ ("E" :> "e") @@ ("F" :> "f") @@ ("G" :> "g") @@ ("H" :> "h") @@ ("I" :> "i") @@ ("J" :> "j") @@ ("K" :> "k") @@ ("L" :> "l") @@ ("M" :> "m") @@ ("N" :> "n") @@ ("O" :> "o") @@ ("P" :> "p") @@ ("Q" :> "q") @@ ("R" :> "r") @@ ("S" :> "s") @@ ("T" :> "t") @@ ("U" :> "u") @@ ("V" :> "v") @@ ("W" :> "w") @@ ("X" :> "x") @@ ("Y" :> "y") @@ ("Z" :> "z")

UpperOf == ("a" :> "A") @@ ("b" :> "B") @@ ("c" :> "C") @@ ("d" :> "D") @@ ("e" :> "E") @@ ("f" :> "F") @@ ("g" :> "G") @@ ("h" :> "H") @@ ("i" :> "I") @@ ("j" :> "J") @@ ("k" :> "K") @@ ("l" :> "L") @@ ("m" :> "M") @@ ("n" :> "N") @@ ("o" :> "O") @@ ("p" :> "P") @@ ("q" :> "Q") @@ ("r" :> "R") @@ ("s" :> "S") @@ ("t" :> "T") @@ ("u" :> "U") @@ ("v" :> "V") @@ ("w" :> "W") @@ ("x" :> "X") @@ ("y" :> "Y") @@ ("z" :> "Z")

\* str.lower()
Lower(s) == [i \in 1..Len(s) |-> IF s[i] \in DOMAIN LowerOf THEN LowerOf[s[i]] ELSE s[i]]

\* str.upper()
Upper(s) == [i \in 1..Len(s) |-> IF s[i] \in DOMAIN UpperOf THEN UpperOf[s[i]] ELSE s[i]]

\* dict.get(key, default)
Get(d, k, default) == IF k \in DOMAIN d THEN d[k] ELSE default

\* s[n:]
DropFirst(s, n) == SubSeq(s, n + 1, Len(s))

\* s[:-n]
DropLast(s, n) == SubSeq(s, 1, Len(s) - n)

RECURSIVE LStrip(_)
LStrip(s) == IF s # <<>> /\ Head(s) = " " THEN LStrip(Tail(s)) ELSE s

RECURSIVE RStrip(_)
RStrip(s) == IF s # <<>> /\ s[Len(s)] = " " THEN RStrip(DropLast(s, 1)) ELSE s

\* str.strip()
Strip(s) == RStrip(LStrip(s))

\* str.startswith(p)
StartsWith(s, p) == Len(p) <= Len(s) /\ SubSeq(s, 1, Len(p)) = p

\* str.endswith(p)
EndsWith(s, p) == Len(p) <= Len(s) /\ SubSeq(s, Len(s) - Len(p) + 1, Len(s)) = p

\* p in s
Contains(s, p) == \E i \in 0..(Len(s) - Len(p)) : SubSeq(s, i + 1, i + Len(p)) = p

\* str.replace(a, b) for one-character a and b
Replace(s, a, b) == [i \in 1..Len(s) |-> IF s[i] = a THEN b ELSE s[i]]

\* sep.join(parts)
RECURSIVE Join(_, _)
Join(parts, sep) ==
    IF parts = <<>> THEN <<>>
    ELSE IF Len(parts) = 1 THEN parts[1]
    ELSE parts[1] \o sep \o Join(Tail(parts), sep)

DigitChar == <<"0", "1", "2", "3", "4", "5", "6", "7", "8", "9", "a", "b", "c", "d", "e", "f">>

\* str(n) / f"{n}" for an int n >= 0
RECURSIVE Digits(_)
Digits(n) == IF n < 10 THEN <<DigitChar[n + 1]>> ELSE Digits(n \div 10) \o <<DigitChar[(n % 10) + 1]>>

\* f"{n:02x}" for 0 <= n <= 255
Hex2(n) == <<DigitChar[(n \div 16) + 1], DigitChar[(n % 16) + 1]>>

HexDigitVal(c) == CHOOSE v \in 0..15 : DigitChar[v + 1] = c

\* int(s, 16) for a two-digit s
ParseHex2(s) == 16 * HexDigitVal(s[1]) + HexDigitVal(s[2])

Abs(n) == IF n < 0 THEN -n ELSE n

Max2(a, b) == IF a >= b THEN a ELSE b

Min2(a, b) == IF a <= b THEN a ELSE b

SetMin(S) == CHOOSE m \in S : \A o \in S : m <= o

SetMax(S) == CHOOSE m \in S : \A o \in S : m >= o

\* sorted(set) of numbers
RECURSIVE SortedSeq(_)
SortedSeq(S) == IF S = {} THEN <<>> ELSE <<SetMin(S)>> \o SortedSeq(S \ {SetMin(S)})

\* set(list)
Range(s) == {s[i] : i \in 1..Len(s)}

\* the orders in which a set can be iterated
Orders(S) == {o \in [1..Cardinality(S) -> S] : Range(o) = S}

(***************************************************************************)
(* design_asset_extractor/utils.py                                         *)
(***************************************************************************)
EmptyDict == <<>>

\* int(c * 255) for a channel c given in thousandths
ChannelByte(c) == (c * 255) \div 1000

rgb_to_hex(r, g, b) == <<"#">> \o Hex2(ChannelByte(r)) \o Hex2(ChannelByte(g)) \o Hex2(ChannelByte(b))

GrayMaxDiff == 30

categorize_color(hex_in) ==
    LET hex_color == Lower(hex_in)
        r == ParseHex2(SubSeq(hex_color, 2, 3))
        g == ParseHex2(SubSeq(hex_color, 4, 5))
        b == ParseHex2(SubSeq(hex_color, 6, 7))
        \* brightness = (r + g + b) / 3, compared through 3 * brightness
        sum == r + g + b
        max_diff == Max2(Max2(Abs(r - g), Abs(g - b)), Abs(r - b))
    IN  IF hex_color = s__ffffff THEN s_white
        ELSE IF hex_color = s__000000 THEN s_black
        ELSE IF max_diff < GrayMaxDiff THEN
            IF sum > 3 * 240 THEN s_gray_50
            ELSE IF sum > 3 * 200 THEN s_gray_100
            ELSE IF sum > 3 * 150 THEN s_gray_200
            ELSE IF sum > 3 * 100 THEN s_gray_300
            ELSE IF sum > 3 * 50 THEN s_gray_600
            ELSE s_gray_900
        ELSE IF r > g /\ r > b THEN
            IF g > 150 /\ b < 100 THEN (IF sum > 3 * 150 THEN s_yellow ELSE s_orange)
            ELSE IF b > 100 THEN s_purple
            ELSE s_red
        ELSE IF g > r /\ g > b THEN
            IF r > 150 THEN (IF sum > 3 * 150 THEN s_lime ELSE s_green)
            ELSE s_green
        ELSE IF b > r /\ b > g THEN
            IF r > 150 THEN s_pink
            ELSE IF g > 150 THEN s_cyan
            ELSE s_blue
        ELSE s_unknown

weight_map ==
    (<<"t", "h", "i", "n">> :> 100) @@ (<<"e", "x", "t", "r", "a", "l", "i", "g", "h", "t">> :> 200)
    @@ (<<"l", "i", "g", "h", "t">> :> 300) @@ (<<"n", "o", "r", "m", "a", "l">> :> 400)
    @@ (<<"r", "e", "g", "u", "l", "a", "r">> :> 400) @@ (<<"m", "e", "d", "i", "u", "m">> :> 500)
    @@ (<<"s", "e", "m", "i", "b", "o", "l", "d">> :> 600) @@ (<<"d", "e", "m", "i", "b", "o", "l", "d">> :> 600)
    @@ (<<"b", "o", "l", "d">> :> 700) @@ (<<"e", "x", "t", "r", "a", "b", "o", "l", "d">> :> 800)
    @@ (<<"b", "l", "a", "c", "k">> :> 900) @@ (<<"h", "e", "a", "v", "y">> :> 900)

\* A JSON value that is a str or a number where the code tells them apart:
\* [str |-> chars] or [num |-> n]; any other record is a JSON object.
IsStr(v) == "str" \in DOMAIN v

IsNum(v) == "num" \in DOMAIN v

\* as normalize_font_weight, a number taken as it is
normalize_font_weight_raw(weight) ==
    IF IsStr(weight) THEN Get(weight_map, Lower(weight.str), 400)
    ELSE IF weight.num # 0 THEN weight.num ELSE 400

normalize_font_weight(weight) ==
    IF IsStr(weight) THEN Get(weight_map, Lower(weight.str), 400)
    ELSE LET w == IF weight.num # 0 THEN weight.num ELSE 400
         IN  Max2(100, Min2(900, w))

common_scales == <<4, 8, 12, 16, 20, 24, 32, 40, 48, 64, 80, 96>>

scale_steps == <<"xs", "sm", "md", "lg", "xl", "2xl", "3xl", "4xl", "5xl", "6xl", "7xl", "8xl">>

SpacingTolerance == 4

\* min(unique_spacings, key=lambda x: abs(x - expected_value)): the first
\* element of the ascending list at minimal distance
ClosestSpacing(unique_spacings, expected_value) ==
    LET best == SetMin({Abs(x - expected_value) : x \in Range(unique_spacings)})
        i == SetMin({j \in 1..Len(unique_spacings) : Abs(unique_spacings[j] - expected_value) = best})
    IN  unique_spacings[i]

\* as detect_spacing_pattern, accepting the closest value however far it is
detect_spacing_pattern_any(spacings) ==
    IF spacings = <<>> THEN EmptyDict
    ELSE LET unique_spacings == SortedSeq(Range(spacings))
             closest(i) == ClosestSpacing(unique_spacings, common_scales[i])
             accepted == 1..Len(common_scales)
         IN  [k \in {scale_steps[i] : i \in accepted} |->
                 closest(CHOOSE i \in accepted : scale_steps[i] = k)]

detect_spacing_pattern(spacings) ==
    IF spacings = <<>> THEN EmptyDict
    ELSE LET unique_spacings == SortedSeq(Range(spacings))
             closest(i) == ClosestSpacing(unique_spacings, common_scales[i])
             accepted == {i \in 1..Len(common_scales) : Abs(closest(i) - common_scales[i]) < SpacingTolerance}
         IN  [k \in {scale_steps[i] : i \in accepted} |->
                 closest(CHOOSE i \in accepted : scale_steps[i] = k)]

prefixes_to_remove == <<<<"r", "e", "c", "t">>, <<"e", "l", "l", "i", "p", "s", "e">>, <<"f", "r", "a", "m", "e">>, <<"g", "r", "o", "u", "p">>>>

suffixes_to_remove == <<<<" ", "c", "o", "p", "y">>, <<" ", "1">>, <<" ", "2">>, <<" ", "3">>>>

\* for prefix in prefixes: if clean_name.startswith(prefix): clean_name = clean_name[len(prefix):].strip()
RECURSIVE RemovePrefixes(_, _)
RemovePrefixes(clean_name, prefixes) ==
    IF prefixes = <<>> THEN clean_name
    ELSE RemovePrefixes(
            IF StartsWith(clean_name, Head(prefixes))
            THEN Strip(DropFirst(clean_name, Len(Head(prefixes))))
            ELSE clean_name,
            Tail(prefixes))

\* for suffix in suffixes: if clean_name.endswith(suffix): clean_name = clean_name[:-len(suffix)].strip()
RECURSIVE RemoveSuffixes(_, _)
RemoveSuffixes(clean_name, suffixes) ==
    IF suffixes = <<>> THEN clean_name
    ELSE RemoveSuffixes(
            IF EndsWith(clean_name, Head(suffixes))
            THEN Strip(DropLast(clean_name, Len(Head(suffixes))))
            ELSE clean_name,
            Tail(suffixes))

clean_component_name(name) ==
    LET clean_name == RemoveSuffixes(RemovePrefixes(Strip(Lower(name)), prefixes_to_remove), suffixes_to_remove)
    IN  IF clean_name # <<>> THEN Replace(Replace(clean_name, " ", "-"), "_", "-")
        ELSE name

\* lineHeight / letterSpacing: {"value": v} or a number (hundredths)
MetricValue(v, default) ==
    IF ~IsNum(v) /\ "value" \in DOMAIN v THEN v.value
    ELSE IF IsNum(v) /\ v.num # 0 THEN v.num
    ELSE default

DefaultLineHeight == 140

extract_text_properties(style) ==
    (IF "fontFamily" \in DOMAIN style THEN [font_family |-> style.fontFamily] ELSE EmptyDict)
    @@ (IF "fontSize" \in DOMAIN style THEN [font_size |-> style.fontSize] ELSE EmptyDict)
    @@ (IF "fontWeight" \in DOMAIN style THEN [font_weight |-> normalize_font_weight(style.fontWeight)] ELSE EmptyDict)
    @@ (IF "lineHeight" \in DOMAIN style THEN [line_height |-> MetricValue(style.lineHeight, DefaultLineHeight)] ELSE EmptyDict)
    @@ (IF "letterSpacing" \in DOMAIN style THEN [letter_spacing |-> MetricValue(style.letterSpacing, 0)] ELSE EmptyDict)
    @@ (IF "textAlignHorizontal" \in DOMAIN style THEN [text_align |-> Lower(style.textAlignHorizontal)] ELSE EmptyDict)
    @@ (IF "textCase" \in DOMAIN style /\ style.textCase # <<"O", "R", "I", "G", "I", "N", "A", "L">>
        THEN [text_transform |-> Lower(style.textCase)] ELSE EmptyDict)

(***************************************************************************)
(* design_asset_extractor/token_extractor.py                               *)
(***************************************************************************)
s_fontFamily == <<"f", "o", "n", "t", "F", "a", "m", "i", "l", "y">>
s_fontSizes == <<"f", "o", "n", "t", "S", "i", "z", "e", "s">>
s_fontWeights == <<"f", "o", "n", "t", "W", "e", "i", "g", "h", "t", "s">>
s_lineHeights == <<"l", "i", "n", "e", "H", "e", "i", "g", "h", "t", "s">>
s_heading_1 == <<"h", "e", "a", "d", "i", "n", "g", "-", "1">>
s_heading_2 == <<"h", "e", "a", "d", "i", "n", "g", "-", "2">>
s_heading_3 == <<"h", "e", "a", "d", "i", "n", "g", "-", "3">>
s_leading_ == <<"l", "e", "a", "d", "i", "n", "g", "-">>
s_regular == <<"r", "e", "g", "u", "l", "a", "r">>
s_medium == <<"m", "e", "d", "i", "u", "m">>
s_bold == <<"b", "o", "l", "d">>
s_shadow_ == <<"s", "h", "a", "d", "o", "w", "-">>
s_blur_ == <<"b", "l", "u", "r", "-">>
s_DROP_SHADOW == <<"D", "R", "O", "P", "_", "S", "H", "A", "D", "O", "W">>
s_LAYER_BLUR == <<"L", "A", "Y", "E", "R", "_", "B", "L", "U", "R">>
s_px_ == <<"p", "x", " ">>

\* d[k] = v
DictSet(d, k, v) == (k :> v) @@ d

\* TokenExtractor.__init__
TokenExtractorInit ==
    [colors |-> EmptyDict, typography |-> EmptyDict, spacing |-> EmptyDict,
     shadows |-> <<>>, blurs |-> <<>>,
     all_color_values |-> {}, all_font_sizes |-> <<>>,
     all_spacing_values |-> <<>>, all_font_families |-> {}]

ColorHex(color) == rgb_to_hex(color.r, color.g, color.b)

\* the hex values one fill adds to all_color_values
FillColors(fill) ==
    IF Get(fill, "type", <<>>) = s_SOLID /\ "color" \in DOMAIN fill THEN {ColorHex(fill.color)}
    ELSE IF Get(fill, "type", <<>>) = s_GRADIENT_LINEAR /\ "gradientStops" \in DOMAIN fill
    THEN {ColorHex(fill.gradientStops[i].color) :
            i \in {j \in 1..Len(fill.gradientStops) : "color" \in DOMAIN fill.gradientStops[j]}}
    ELSE {}

extract_colors_from_fills(st, fills) ==
    [st EXCEPT !.all_color_values = @ \cup UNION {FillColors(fills[i]) : i \in 1..Len(fills)}]

StrokeColors(stroke) ==
    IF Get(stroke, "type", <<>>) = s_SOLID /\ "color" \in DOMAIN stroke THEN {ColorHex(stroke.color)}
    ELSE {}

extract_colors_from_strokes(st, strokes) ==
    [st EXCEPT !.all_color_values = @ \cup UNION {StrokeColors(strokes[i]) : i \in 1..Len(strokes)}]

\* the band of a font size given in tenths of a pixel
SizeCategory(font_size) ==
    IF font_size >= 320 THEN s_heading
    ELSE IF font_size >= 200 THEN s_subheading
    ELSE IF font_size >= 160 THEN s_body
    ELSE s_caption

\* int(font_size) of a size in tenths
IntSize(font_size) == font_size \div 10

TokenName(font_size) == SizeCategory(font_size) \o <<"-">> \o Digits(IntSize(font_size))

DefaultFontSize == 160

DefaultFontWeight == 400

extract_typography_from_text(st, node) ==
    LET text_properties == extract_text_properties(Get(node, "style", EmptyDict))
        st1 == IF "font_size" \in DOMAIN text_properties
               THEN [st EXCEPT !.all_font_sizes = Append(@, text_properties.font_size)] ELSE st
        st2 == IF "font_family" \in DOMAIN text_properties
               THEN [st1 EXCEPT !.all_font_families = @ \cup {text_properties.font_family}] ELSE st1
        font_size == Get(text_properties, "font_size", DefaultFontSize)
        font_weight == Get(text_properties, "font_weight", DefaultFontWeight)
        font_family == Get(text_properties, "font_family", s_Inter)
        token_name == TokenName(font_size)
    IN  IF token_name \notin DOMAIN st2.typography
        THEN [st2 EXCEPT !.typography = DictSet(@, token_name,
                [name |-> token_name, font_family |-> font_family, font_size |-> font_size,
                 font_weight |-> font_weight,
                 line_height |-> Get(text_properties, "line_height", DefaultLineHeight),
                 letter_spacing |-> IF "letter_spacing" \in DOMAIN text_properties
                                    THEN <<text_properties.letter_spacing>> ELSE <<>>])]
        ELSE st2

extract_spacing_from_layout(st, node) ==
    LET bbox == Get(node, "absoluteBoundingBox", EmptyDict)
        from_box == (IF "width" \in DOMAIN bbox THEN <<bbox.width>> ELSE <<>>)
                    \o (IF "height" \in DOMAIN bbox THEN <<bbox.height>> ELSE <<>>)
        from_auto ==
            IF "layoutMode" \in DOMAIN node
            THEN (IF "itemSpacing" \in DOMAIN node /\ node.itemSpacing > 0 THEN <<node.itemSpacing>> ELSE <<>>)
                 \o (IF "paddingLeft" \in DOMAIN node THEN <<node.paddingLeft>> ELSE <<>>)
                 \o (IF "paddingRight" \in DOMAIN node THEN <<node.paddingRight>> ELSE <<>>)
                 \o (IF "paddingTop" \in DOMAIN node THEN <<node.paddingTop>> ELSE <<>>)
                 \o (IF "paddingBottom" \in DOMAIN node THEN <<node.paddingBottom>> ELSE <<>>)
            ELSE <<>>
    IN  [st EXCEPT !.all_spacing_values = @ \o from_box \o from_auto]

RECURSIVE extract_effects_from_node(_, _)
extract_effects_from_node(st, effects) ==
    IF effects = <<>> THEN st
    ELSE LET effect == Head(effects)
             effect_type == Upper(Get(effect, "type", <<>>))
             effect_radius == Get(effect, "radius", 0)
             effect_color == Get(effect, "color", EmptyDict)
             offset == Get(effect, "offset", EmptyDict)
             st1 == IF effect_type = s_DROP_SHADOW THEN
                        IF "r" \in DOMAIN effect_color
                        THEN [st EXCEPT !.shadows = Append(@,
                                [name |-> s_shadow_ \o Digits(Len(st.shadows) + 1),
                                 value |-> <<"0">> \o s_px_ \o Digits(Get(offset, "x", 0)) \o s_px_
                                           \o Digits(Get(offset, "y", 0)) \o s_px_
                                           \o Digits(effect_radius) \o s_px_ \o ColorHex(effect_color)])]
                        ELSE st
                    ELSE IF effect_type = s_LAYER_BLUR
                    THEN [st EXCEPT !.blurs = Append(@,
                            [name |-> s_blur_ \o Digits(Len(st.blurs) + 1), value |-> effect_radius])]
                    ELSE st
         IN  extract_effects_from_node(st1, Tail(effects))

TE_extract_node_tokens(st, node) ==
    LET node_type == Upper(Get(node, "type", <<>>))
        st1 == IF "fills" \in DOMAIN node /\ node.fills # <<>>
               THEN extract_colors_from_fills(st, node.fills) ELSE st
        st2 == IF "strokes" \in DOMAIN node /\ node.strokes # <<>>
               THEN extract_colors_from_strokes(st1, node.strokes) ELSE st1
        st3 == IF node_type = s_TEXT /\ "style" \in DOMAIN node
               THEN extract_typography_from_text(st2, node) ELSE st2
        st4 == IF node_type \in {s_FRAME, s_GROUP, s_COMPONENT, s_INSTANCE}
               THEN extract_spacing_from_layout(st3, node) ELSE st3
    IN  IF "effects" \in DOMAIN node /\ node.effects # <<>>
        THEN extract_effects_from_node(st4, node.effects) ELSE st4

RECURSIVE TE_traverse_document(_, _), TE_traverse_children(_, _)
TE_traverse_document(st, node) ==
    LET st1 == TE_extract_node_tokens(st, node)
    IN  IF "children" \in DOMAIN node THEN TE_traverse_children(st1, node.children) ELSE st1

\* for child in node["children"]: self._traverse_document(child)
TE_traverse_children(st, children) ==
    IF children = <<>> THEN st
    ELSE TE_traverse_children(TE_traverse_document(st, Head(children)), Tail(children))

semantic_map ==
    (s__ff0000 :> s_danger) @@ (s__dc3545 :> s_danger) @@ (s__28a745 :> s_success)
    @@ (s__28b446 :> s_success) @@ (s__ffc107 :> s_warning) @@ (s__fbbb00 :> s_warning)
    @@ (s__007bff :> s_info) @@ (s__6257db :> s_primary) @@ (s__6c757d :> s_secondary)
    @@ (s__3b5999 :> s_facebook)

\* the body of "for color in color_list" in _process_colors
CategorizeInto(colors, color) ==
    IF Lower(color) \in DOMAIN semantic_map
    THEN [colors EXCEPT !.semantic = DictSet(@, semantic_map[Lower(color)], color)]
    ELSE LET category == categorize_color(color)
         IN  IF category \in {s_white, s_black} \/ Contains(category, s_gray)
             THEN [colors EXCEPT !.neutral = DictSet(@, category, color)]
             ELSE [colors EXCEPT !.brand =
                      DictSet(@, s_brand_ \o Digits(Cardinality(DOMAIN colors.brand) + 1), color)]

RECURSIVE CategorizeAll(_, _)
CategorizeAll(colors, color_list) ==
    IF color_list = <<>> THEN colors
    ELSE CategorizeAll(CategorizeInto(colors, Head(color_list)), Tail(color_list))

\* color_list is list(self.all_color_values): the set in the order the
\* interpreter iterates it (str hashes are salted per process)
process_colors(st, color_list) ==
    [st EXCEPT !.colors =
        CategorizeAll([semantic |-> EmptyDict, neutral |-> EmptyDict, brand |-> EmptyDict], color_list)]

\* the body of "for size in sorted_sizes" in _process_typography
SizeKey(size) ==
    IF size >= 40 THEN s_heading_1
    ELSE IF size >= 32 THEN s_heading_2
    ELSE IF size >= 24 THEN s_heading_3
    ELSE IF size >= 20 THEN s_subheading
    ELSE IF size >= 16 THEN s_body
    ELSE s_caption

RECURSIVE AssignSizes(_, _)
AssignSizes(d, sorted_sizes) ==
    IF sorted_sizes = <<>> THEN d
    ELSE AssignSizes(DictSet(d, SizeKey(Head(sorted_sizes)), Head(sorted_sizes)), Tail(sorted_sizes))

weight_names == (400 :> s_regular) @@ (600 :> s_medium) @@ (700 :> s_bold) @@ (900 :> s_black)

\* family_list is list(self.all_font_families) in the interpreter's iteration
\* order; every family counts once, so most_common(1) is its first element
process_typography(st, family_list) ==
    IF DOMAIN st.typography = {} THEN st
    ELSE LET tokens == {st.typography[k] : k \in DOMAIN st.typography}
             most_common_family == IF family_list # <<>> THEN family_list[1] ELSE s_Inter
             font_sizes == {IntSize(t.font_size) : t \in tokens}
             font_weights == {t.font_weight : t \in tokens}
             line_heights == {t.line_height : t \in tokens}
             sorted_sizes == SortedSeq(font_sizes)
             sizes == IF Len(sorted_sizes) = 1 THEN DictSet(EmptyDict, s_body, sorted_sizes[1])
                      ELSE AssignSizes(EmptyDict, sorted_sizes)
             leading == [k \in {s_leading_ \o Digits(h) : h \in line_heights} |->
                            CHOOSE h \in line_heights : s_leading_ \o Digits(h) = k]
         IN  [st EXCEPT !.typography =
                (s_fontFamily :> most_common_family)
                \* the line heights are stored into fontSizes, after the sizes
                @@ (s_fontSizes :> (leading @@ sizes))
                @@ (s_fontWeights :> [k \in {Get(weight_names, w, Digits(w)) : w \in font_weights} |->
                                        CHOOSE w \in font_weights : Get(weight_names, w, Digits(w)) = k])
                @@ (s_lineHeights :> EmptyDict)]

process_spacing(st) ==
    IF st.all_spacing_values = <<>> THEN [st EXCEPT !.spacing = EmptyDict]
    ELSE [st EXCEPT !.spacing = detect_spacing_pattern(st.all_spacing_values)]

\* self.effects is a defaultdict: a key exists once it was read or appended to,
\* and "shadows or blurs" reads blurs only when shadows is empty
build_token_output(st) ==
    [colors |-> st.colors, typography |-> st.typography, spacing |-> st.spacing]
    @@ (IF st.shadows # <<>>
        THEN [effects |-> [shadows |-> st.shadows]
                          @@ (IF st.blurs # <<>> THEN [blurs |-> st.blurs] ELSE EmptyDict)]
        ELSE IF st.blurs # <<>>
        THEN [effects |-> [shadows |-> <<>>, blurs |-> st.blurs]]
        ELSE EmptyDict)

\* TokenExtractor state after extract_all_tokens
extract_all_tokens(st, document, color_list, family_list) ==
    process_spacing(process_typography(process_colors(TE_traverse_document(st, document), color_list), family_list))

(***************************************************************************)
(* design_asset_extractor/component_parser.py                              *)
(***************************************************************************)
interactive_patterns ==
    {<<"b", "u", "t", "t", "o", "n">>, <<"b", "t", "n">>, <<"s", "u", "b", "m", "i", "t">>,
     <<"c", "a", "n", "c", "e", "l">>, <<"c", "l", "o", "s", "e">>, <<"a", "d", "d">>,
     <<"d", "e", "l", "e", "t", "e">>, <<"e", "d", "i", "t">>, <<"s", "a", "v", "e">>,
     <<"s", "e", "a", "r", "c", "h">>, <<"f", "i", "l", "t", "e", "r">>, <<"m", "e", "n", "u">>,
     <<"t", "o", "g", "g", "l", "e">>, <<"s", "w", "i", "t", "c", "h">>}

input_patterns ==
    {<<"i", "n", "p", "u", "t">>, <<"f", "i", "e", "l", "d">>,
     <<"t", "e", "x", "t", "f", "i", "e", "l", "d">>, <<"t", "e", "x", "t", "a", "r", "e", "a">>,
     <<"s", "e", "a", "r", "c", "h", "b", "o", "x">>, <<"e", "m", "a", "i", "l">>,
     <<"p", "a", "s", "s", "w", "o", "r", "d">>, <<"n", "a", "m", "e">>,
     <<"u", "s", "e", "r", "n", "a", "m", "e">>}

display_patterns ==
    {<<"c", "a", "r", "d">>, <<"b", "a", "d", "g", "e">>, <<"a", "v", "a", "t", "a", "r">>,
     <<"i", "c", "o", "n">>, <<"i", "m", "a", "g", "e">>, <<"p", "h", "o", "t", "o">>,
     <<"b", "a", "n", "n", "e", "r">>, <<"h", "e", "a", "d", "e", "r">>,
     <<"f", "o", "o", "t", "e", "r">>, <<"s", "i", "d", "e", "b", "a", "r">>,
     <<"n", "a", "v", "b", "a", "r">>}

k_primary == <<"p", "r", "i", "m", "a", "r", "y">>
k_main == <<"m", "a", "i", "n">>
k_secondary == <<"s", "e", "c", "o", "n", "d", "a", "r", "y">>
k_alt == <<"a", "l", "t">>
k_outline == <<"o", "u", "t", "l", "i", "n", "e">>
k_ghost == <<"g", "h", "o", "s", "t">>
k_small == <<"s", "m", "a", "l", "l">>
k_sm == <<"s", "m">>
k_large == <<"l", "a", "r", "g", "e">>
k_lg == <<"l", "g">>
k_hover == <<"h", "o", "v", "e", "r">>
k_active == <<"a", "c", "t", "i", "v", "e">>
k_pressed == <<"p", "r", "e", "s", "s", "e", "d">>
k_disabled == <<"d", "i", "s", "a", "b", "l", "e", "d">>
k_default == <<"d", "e", "f", "a", "u", "l", "t">>
k_icon == <<"i", "c", "o", "n">>
k_interactive == <<"i", "n", "t", "e", "r", "a", "c", "t", "i", "v", "e">>
k_display == <<"d", "i", "s", "p", "l", "a", "y">>
k_text == <<"t", "e", "x", "t">>
k_layout == <<"l", "a", "y", "o", "u", "t">>
k_input == <<"i", "n", "p", "u", "t">>
k_field == <<"f", "i", "e", "l", "d">>
k_button == <<"b", "u", "t", "t", "o", "n">>
k_btn == <<"b", "t", "n">>
k_card == <<"c", "a", "r", "d">>
k_badge == <<"b", "a", "d", "g", "e">>
k_forms == <<"f", "o", "r", "m", "s">>
k_buttons == <<"b", "u", "t", "t", "o", "n", "s">>
k_cards == <<"c", "a", "r", "d", "s">>
k_badges == <<"b", "a", "d", "g", "e", "s">>
k_typography == <<"t", "y", "p", "o", "g", "r", "a", "p", "h", "y">>
k_general == <<"g", "e", "n", "e", "r", "a", "l">>
k_solid == <<"s", "o", "l", "i", "d">>

Alphabet == <<"a", "b", "c", "d", "e", "f", "g", "h", "i", "j", "k", "l", "m", "n", "o", "p", "q", "r", "s", "t", "u", "v", "w", "x", "y", "z", "A", "B", "C", "D", "E", "F", "G", "H", "I", "J", "K", "L", "M", "N", "O", "P", "Q", "R", "S", "T", "U", "V", "W", "X", "Y", "Z", "0", "1", "2", "3", "4", "5", "6", "7", "8", "9", " ", "-", "_", "|", "#", ",", "/", "<", ">", "=", "'", ".">>

\* A reference to a node object of the document: the child indices that lead
\* from the root to it
RECURSIVE NodeAt(_, _)
NodeAt(node, ref) == IF ref = <<>> THEN node ELSE NodeAt(node.children[Head(ref)], Tail(ref))

\* the document after node[key] = value on the node object at ref
RECURSIVE SetKeyAt(_, _, _, _)
SetKeyAt(node, ref, key, value) ==
    IF ref = <<>> THEN (key :> value) @@ node
    ELSE [node EXCEPT !.children[Head(ref)] = SetKeyAt(@, Tail(ref), key, value)]

\* An insertion-ordered dict: a sequence of [key, value] entries
OD_Has(od, k) == \E i \in 1..Len(od) : od[i].key = k

OD_Index(od, k) == CHOOSE i \in 1..Len(od) : od[i].key = k

OD_Get(od, k) == od[OD_Index(od, k)].value

OD_Set(od, k, v) ==
    IF OD_Has(od, k) THEN [od EXCEPT ![OD_Index(od, k)].value = v]
    ELSE Append(od, [key |-> k, value |-> v])

\* defaultdict(list)[k].append(v)
OD_Append(od, k, v) ==
    IF OD_Has(od, k) THEN [od EXCEPT ![OD_Index(od, k)].value = Append(@, v)]
    ELSE Append(od, [key |-> k, value |-> <<v>>])

\* ComponentParser.__init__
ComponentParserInit == [components |-> <<>>, component_patterns |-> <<>>]

AnyPattern(patterns, node_name) == \E pattern \in patterns : Contains(node_name, pattern)

has_component_properties(node) ==
    \/ Get(node, "cornerRadius", 0) > 0
    \/ Get(node, "fills", <<>>) # <<>>
    \/ Get(node, "strokes", <<>>) # <<>>
    \/ /\ "absoluteBoundingBox" \in DOMAIN node
       /\ LET bbox == node.absoluteBoundingBox
              width == Get(bbox, "width", 0)
              height == Get(bbox, "height", 0)
          IN  20 <= width /\ width <= 500 /\ 20 <= height /\ height <= 500

has_component_structure(node) ==
    /\ "children" \in DOMAIN node
    /\ node.children # <<>>
    /\ LET children == node.children
           kids == 1..Len(children)
           has_background == \E i \in kids : Upper(Get(children[i], "type", <<>>)) = s_RECTANGLE
           has_text == \E i \in kids : Upper(Get(children[i], "type", <<>>)) = s_TEXT
           has_icon == \E i \in kids : Contains(Lower(Get(children[i], "name", <<>>)), k_icon)
       IN  Len(children) >= 2 /\ has_background /\ (has_text \/ has_icon)

is_component_node(node) ==
    LET node_type == Upper(Get(node, "type", <<>>))
        node_name == Lower(Get(node, "name", <<>>))
    IN  IF node_type \in {s_DOCUMENT, s_PAGE} THEN FALSE
        ELSE \/ node_type \in {s_COMPONENT, s_INSTANCE}
             \/ AnyPattern(interactive_patterns, node_name)
             \/ AnyPattern(input_patterns, node_name)
             \/ AnyPattern(display_patterns, node_name)
             \/ (node_type = s_RECTANGLE /\ has_component_properties(node))
             \/ (node_type = s_GROUP /\ has_component_structure(node))

CharCode(c) == CHOOSE i \in 1..Len(Alphabet) : Alphabet[i] = c

\* hashlib.md5(s.encode()).hexdigest()[:8], idealised as a collision-free
\* digest: an injective encoding of s in hexadecimal digits
RECURSIVE Md5Hex8(_)
Md5Hex8(prop_string) ==
    IF prop_string = <<>> THEN <<>>
    ELSE Hex2(CharCode(Head(prop_string))) \o Md5Hex8(Tail(prop_string))

FillTypes(fills) == [i \in 1..Len(fills) |-> Get(fills[i], "type", <<>>)]

\* the string hashed by _generate_component_id
PropString(node) ==
    LET bbox == Get(node, "absoluteBoundingBox", EmptyDict)
        props == <<Get(node, "type", <<>>), clean_component_name(Get(node, "name", <<>>))>>
                 \o (IF "absoluteBoundingBox" \in DOMAIN node
                     THEN <<Digits(Get(bbox, "width", 0)) \o <<"x">> \o Digits(Get(bbox, "height", 0))>>
                     ELSE <<>>)
                 \o (IF "fills" \in DOMAIN node THEN <<Join(FillTypes(node.fills), <<",">>)>> ELSE <<>>)
                 \o (IF "cornerRadius" \in DOMAIN node THEN <<<<"r">> \o Digits(node.cornerRadius)>> ELSE <<>>)
    IN  Join(props, <<"|">>)

generate_component_id(node) == Md5Hex8(PropString(node))

RECURSIVE identify_components(_, _, _, _), identify_children(_, _, _, _, _)
identify_components(st, node, ref, parent_path) ==
    LET node_name == Lower(Get(node, "name", <<>>))
        current_path == IF parent_path # <<>> THEN parent_path \o <<"/">> \o node_name ELSE node_name
        component_id == generate_component_id(node)
        st1 == IF is_component_node(node)
               THEN [st EXCEPT !.component_patterns =
                        OD_Append(@, component_id, [node |-> ref, path |-> current_path, id |-> component_id])]
               ELSE st
    IN  IF "children" \in DOMAIN node THEN identify_children(st1, node.children, ref, current_path, 1)
        ELSE st1

\* for child in node["children"]: self._identify_components(child, current_path)
identify_children(st, children, ref, current_path, i) ==
    IF i > Len(children) THEN st
    ELSE identify_children(identify_components(st, children[i], Append(ref, i), current_path),
                           children, ref, current_path, i + 1)

create_variant_name(node) ==
    LET node_name == Lower(Get(node, "name", <<>>))
    IN  IF Contains(node_name, k_primary) \/ Contains(node_name, k_main) THEN k_primary
        ELSE IF Contains(node_name, k_secondary) \/ Contains(node_name, k_alt) THEN k_secondary
        ELSE IF Contains(node_name, k_outline) \/ Contains(node_name, k_ghost) THEN k_outline
        ELSE IF Contains(node_name, k_small) \/ Contains(node_name, k_sm) THEN k_small
        ELSE IF Contains(node_name, k_large) \/ Contains(node_name, k_lg) THEN k_large
        ELSE IF Contains(node_name, k_hover) THEN k_hover
        ELSE IF Contains(node_name, k_active) \/ Contains(node_name, k_pressed) THEN k_active
        ELSE IF Contains(node_name, k_disabled) THEN k_disabled
        ELSE k_default

properties_to_check == <<"name", "fills", "strokes", "cornerRadius", "opacity">>

\* instance["node"].get(prop), a list turned into the str of its fill types
PropValue(node, prop) ==
    IF prop \notin DOMAIN node THEN [none |-> TRUE]
    ELSE IF prop \in {"fills", "strokes"} THEN [types |-> FillTypes(node[prop])]
    ELSE [val |-> node[prop]]

find_varying_properties(document, instances) ==
    IF Len(instances) < 2 THEN <<>>
    ELSE SelectSeq(properties_to_check,
            LAMBDA prop : Cardinality({PropValue(NodeAt(document, instances[i].node), prop) :
                                          i \in 1..Len(instances)}) > 1)

\* variant_groups[variant_name].append(instance), in insertion order
RECURSIVE GroupByVariantName(_, _, _)
GroupByVariantName(groups, document, instances) ==
    IF instances = <<>> THEN groups
    ELSE GroupByVariantName(
            OD_Append(groups, create_variant_name(NodeAt(document, Head(instances).node)), Head(instances)),
            document, Tail(instances))

group_by_variants(document, instances) == GroupByVariantName(<<>>, document, instances)

\* example["variant_info"] = {...} on the first instance of every group:
\* the node objects of the document are written
RECURSIVE StoreVariantInfo(_, _, _)
StoreVariantInfo(document, groups, varying_properties) ==
    IF groups = <<>> THEN document
    ELSE LET g == Head(groups)
         IN  StoreVariantInfo(
                SetKeyAt(document, g.value[1].node, "variant_info",
                         [name |-> g.key, count |-> Len(g.value), properties |-> varying_properties]),
                Tail(groups), varying_properties)

analyze_component_variants(document, instances) ==
    IF Len(instances) < 2 THEN document
    ELSE StoreVariantInfo(document, group_by_variants(document, instances),
                          find_varying_properties(document, instances))

\* the document after _analyze_component_patterns
RECURSIVE analyze_component_patterns(_, _)
analyze_component_patterns(document, patterns) ==
    IF patterns = <<>> THEN document
    ELSE analyze_component_patterns(
            IF Len(Head(patterns).value) > 1
            THEN analyze_component_variants(document, Head(patterns).value) ELSE document,
            Tail(patterns))

determine_component_type(node) ==
    LET node_name == Lower(Get(node, "name", <<>>))
        node_type == Upper(Get(node, "type", <<>>))
    IN  IF AnyPattern(interactive_patterns, node_name) THEN k_interactive
        ELSE IF AnyPattern(input_patterns, node_name) THEN k_interactive
        ELSE IF AnyPattern(display_patterns, node_name) THEN k_display
        ELSE IF node_type = s_TEXT THEN k_text
        ELSE IF node_type \in {s_FRAME, s_GROUP} /\ "children" \in DOMAIN node /\ Len(node.children) > 2
        THEN k_layout
        ELSE k_display

generate_component_name(node, component_id) ==
    LET clean_name == clean_component_name(Get(node, "name", <<>>))
    IN  IF clean_name = <<>> \/ clean_name = <<"r", "e", "c", "t">> \/ clean_name = <<"f", "r", "a", "m", "e">>
        THEN determine_component_type(node) \o <<"-">> \o component_id
        ELSE clean_name

SolidPaints(paints, extra, default) ==
    LET solid == SelectSeq(paints, LAMBDA f : Get(f, "type", <<>>) = s_SOLID /\ "color" \in DOMAIN f)
    IN  [i \in 1..Len(solid) |->
            (extra :> Get(solid[i], extra, default)) @@ [type |-> k_solid, color |-> ColorHex(solid[i].color)]]

extract_component_properties(node) ==
    LET bbox == Get(node, "absoluteBoundingBox", EmptyDict)
    IN  [type |-> Lower(Get(node, "type", <<>>)), name |-> Get(node, "name", <<>>)]
        @@ (IF "absoluteBoundingBox" \in DOMAIN node
            THEN [width |-> Get(bbox, "width", 0), height |-> Get(bbox, "height", 0),
                  x |-> Get(bbox, "x", 0), y |-> Get(bbox, "y", 0)] ELSE EmptyDict)
        @@ (IF Get(node, "fills", <<>>) # <<>>
            THEN [fills |-> SolidPaints(node.fills, "opacity", 1)] ELSE EmptyDict)
        @@ (IF Get(node, "strokes", <<>>) # <<>>
            THEN [strokes |-> SolidPaints(node.strokes, "weight", 1)] ELSE EmptyDict)
        @@ (IF "cornerRadius" \in DOMAIN node THEN [cornerRadius |-> node.cornerRadius] ELSE EmptyDict)
        @@ (IF "opacity" \in DOMAIN node THEN [opacity |-> node.opacity] ELSE EmptyDict)
        @@ (IF Upper(Get(node, "type", <<>>)) = s_TEXT /\ "style" \in DOMAIN node
            THEN (IF "characters" \in DOMAIN node THEN [text |-> node.characters] ELSE EmptyDict)
                 @@ extract_text_properties(node.style)
            ELSE EmptyDict)

ChildInfo(child) ==
    [name |-> Get(child, "name", <<>>), type |-> Lower(Get(child, "type", <<>>)),
     visible |-> Get(child, "visible", TRUE)]
    @@ (IF "absoluteBoundingBox" \in DOMAIN child
        THEN [width |-> Get(child.absoluteBoundingBox, "width", 0),
              height |-> Get(child.absoluteBoundingBox, "height", 0)] ELSE EmptyDict)
    @@ (IF Upper(Get(child, "type", <<>>)) = s_TEXT /\ "characters" \in DOMAIN child
        THEN [text |-> child.characters] ELSE EmptyDict)

extract_component_children(node) ==
    IF "children" \in DOMAIN node THEN [i \in 1..Len(node.children) |-> ChildInfo(node.children[i])]
    ELSE <<>>

ExampleUsage(node, variant_name) ==
    <<"<">> \o generate_component_name(node, <<>>)
    \o <<" ", "v", "a", "r", "i", "a", "n", "t", "=", "'">> \o variant_name \o <<"'", " ", "/", ">">>

extract_component_variants(document, instances) ==
    LET variant_groups == GroupByVariantName(<<>>, document, instances)
    IN  [i \in 1..Len(variant_groups) |->
            LET example == NodeAt(document, variant_groups[i].value[1].node)
            IN  [name |-> variant_groups[i].key,
                 props |-> extract_component_properties(example),
                 example_usage |-> ExampleUsage(example, variant_groups[i].key)]]

\* the body of "for component_id, instances in self.component_patterns.items()"
CreateSpec(components, document, component_id, instances) ==
    LET base_node == NodeAt(document, instances[1].node)
        component_type == determine_component_type(base_node)
        component_name == generate_component_name(base_node, component_id)
    IN  OD_Set(components, component_name,
               [name |-> component_name, type |-> component_type,
                props |-> extract_component_properties(base_node),
                variants |-> extract_component_variants(document, instances),
                children |-> extract_component_children(base_node)])

RECURSIVE CreateSpecs(_, _, _)
CreateSpecs(components, document, patterns) ==
    IF patterns = <<>> THEN components
    ELSE CreateSpecs(CreateSpec(components, document, Head(patterns).key, Head(patterns).value),
                     document, Tail(patterns))

create_component_specs(st, document) ==
    [st EXCEPT !.components = CreateSpecs(@, document, st.component_patterns)]

\* as get_component_category, the category being the type
get_component_category_type(component_spec) ==
    IF component_spec.type \in {k_interactive, k_display, k_layout} THEN component_spec.type
    ELSE IF component_spec.type = k_text THEN k_typography
    ELSE k_general

get_component_category(component_spec) ==
    LET name == Lower(component_spec.name)
    IN  IF component_spec.type = k_interactive THEN
            IF Contains(name, k_input) \/ Contains(name, k_field) THEN k_forms
            ELSE IF Contains(name, k_button) \/ Contains(name, k_btn) THEN k_buttons
            ELSE k_interactive
        ELSE IF component_spec.type = k_display THEN
            IF Contains(name, k_card) THEN k_cards
            ELSE IF Contains(name, k_badge) THEN k_badges
            ELSE k_display
        ELSE IF component_spec.type = k_layout THEN k_layout
        ELSE IF component_spec.type = k_text THEN k_typography
        ELSE k_general

build_component_output(st) ==
    [components |-> [i \in 1..Len(st.components) |->
        LET component_spec == st.components[i].value
        IN  [name |-> component_spec.name, type |-> component_spec.type,
             category |-> get_component_category(component_spec),
             props |-> component_spec.props, variants |-> component_spec.variants,
             children |-> component_spec.children]]]

\* ComponentParser state after parse_all_components
parse_all_components(st, document) ==
    LET st1 == identify_components(st, document, <<>>, <<>>)
    IN  create_component_specs(st1, analyze_component_patterns(document, st1.component_patterns))

\* the document after parse_all_components
parse_all_components_document(st, document) ==
    analyze_component_patterns(document, identify_components(st, document, <<>>, <<>>).component_patterns)

(***************************************************************************)
(* design_asset_extractor/layout_analyzer.py                               *)
(***************************************************************************)
k_auto_layout == <<"a", "u", "t", "o", "-", "l", "a", "y", "o", "u", "t">>
k_manual == <<"m", "a", "n", "u", "a", "l">>
k_horizontal == <<"h", "o", "r", "i", "z", "o", "n", "t", "a", "l">>
k_vertical == <<"v", "e", "r", "t", "i", "c", "a", "l">>
k_center == <<"c", "e", "n", "t", "e", "r">>
k_NONE == <<"N", "O", "N", "E">>
k_STRETCH == <<"S", "T", "R", "E", "T", "C", "H">>

\* Optional[T]: <<>> is None, <<v>> is the value v
None == <<>>

Some(v) == <<v>>

RECURSIVE Gcd(_, _)
Gcd(a, b) == IF b = 0 THEN a ELSE Gcd(b, a % b)

\* the float num / den (den > 0), kept exact
Ratio(num, den) == LET g == Gcd(Abs(num), den) IN [num |-> num \div g, den |-> den \div g]

RECURSIVE Sum(_)
Sum(s) == IF s = <<>> THEN 0 ELSE Head(s) + Sum(Tail(s))

\* round(num / den): Python rounds a tie to the even neighbour
PyRound(num, den) ==
    LET q == num \div den
        r == num % den
    IN  IF 2 * r < den THEN q
        ELSE IF 2 * r > den THEN q + 1
        ELSE IF q % 2 = 0 THEN q ELSE q + 1

\* find_common_values (utils.py) on numbers; a result is round(avg, 2)
RECURSIVE GroupValues(_, _, _)
GroupValues(groups, values, tolerance) ==
    IF values = <<>> THEN groups
    ELSE LET value == Head(values)
             fits(g) == Abs(g[1] - value) <= tolerance * Max2(Abs(g[1]), Abs(value))
             hit == {i \in 1..Len(groups) : fits(groups[i])}
         IN  GroupValues(
                IF hit # {} THEN [groups EXCEPT ![SetMin(hit)] = Append(@, value)]
                ELSE Append(groups, <<value>>),
                Tail(values), tolerance)

find_common_values(values, tolerance) ==
    LET groups == SelectSeq(GroupValues(<<>>, values, tolerance), LAMBDA g : Len(g) > 1)
    IN  [i \in 1..Len(groups) |-> Ratio(PyRound(100 * Sum(groups[i]), Len(groups[i])), 100)]

\* LayoutAnalyzer.__init__
LayoutAnalyzerInit ==
    [screens |-> <<>>, layout_patterns |-> EmptyDict, spacing_patterns |-> <<>>, grid_systems |-> <<>>]

BoxSize(bbox) ==
    [width |-> Get(bbox, "width", 0), height |-> Get(bbox, "height", 0),
     x |-> Get(bbox, "x", 0), y |-> Get(bbox, "y", 0)]

extract_size_info(node) ==
    IF "absoluteBoundingBox" \in DOMAIN node THEN Some(BoxSize(node.absoluteBoundingBox))
    ELSE IF "boundingBox" \in DOMAIN node THEN Some(BoxSize(node.boundingBox))
    ELSE IF Get(node, "width", 0) > 0 /\ Get(node, "height", 0) > 0
    THEN Some([width |-> node.width, height |-> node.height, x |-> 0, y |-> 0])
    ELSE None

extract_background_color(node) ==
    LET fills == Get(node, "fills", <<>>)
        ok == {i \in 1..Len(fills) :
                 /\ Get(fills[i], "type", <<>>) = s_SOLID
                 /\ "color" \in DOMAIN fills[i]
                 /\ Get(fills[i], "visible", TRUE)}
    IN  IF ok = {} THEN None ELSE Some(ColorHex(fills[SetMin(ok)].color))

extract_child_style_info(node) ==
    LET fills == SelectSeq(Get(node, "fills", <<>>),
                           LAMBDA f : Get(f, "type", <<>>) = s_SOLID /\ "color" \in DOMAIN f)
    IN  (IF fills # <<>> THEN [background_colors |-> [i \in 1..Len(fills) |-> ColorHex(fills[i].color)]]
         ELSE EmptyDict)
        @@ (IF "cornerRadius" \in DOMAIN node THEN [border_radius |-> node.cornerRadius] ELSE EmptyDict)
        @@ (IF "opacity" \in DOMAIN node THEN [opacity |-> node.opacity] ELSE EmptyDict)

extract_child_layout_info(node, index) ==
    LET size_info == extract_size_info(node)
    IN  IF size_info = None THEN None
        ELSE Some([name |-> Get(node, "name", <<>>), type |-> Lower(Get(node, "type", <<>>)),
                   index |-> index,
                   size |-> [width |-> size_info[1].width, height |-> size_info[1].height],
                   position |-> [x |-> size_info[1].x, y |-> size_info[1].y],
                   visible |-> Get(node, "visible", TRUE),
                   component_ref |-> None,
                   style |-> extract_child_style_info(node)]
                  @@ (IF "constraints" \in DOMAIN node THEN [constraints |-> node.constraints]
                      ELSE EmptyDict))

\* enumerate(node["children"]) is 0-based
RECURSIVE ChildrenLayouts(_, _)
ChildrenLayouts(children, i) ==
    IF i > Len(children) THEN <<>>
    ELSE extract_child_layout_info(children[i], i - 1) \o ChildrenLayouts(children, i + 1)

extract_children_layouts(node) ==
    IF "children" \in DOMAIN node THEN ChildrenLayouts(node.children, 1) ELSE <<>>

\* sorted(positions, key=...): a stable sort
RECURSIVE InsertByKey(_, _, _)
InsertByKey(sorted, p, key) ==
    IF sorted = <<>> THEN <<p>>
    ELSE IF p[key] < Head(sorted)[key] THEN <<p>> \o sorted
    ELSE <<Head(sorted)>> \o InsertByKey(Tail(sorted), p, key)

RECURSIVE SortedByKey(_, _)
SortedByKey(positions, key) ==
    IF positions = <<>> THEN <<>>
    ELSE InsertByKey(SortedByKey(DropLast(positions, 1), key), positions[Len(positions)], key)

\* the positive gaps between consecutive boxes along an axis
Gaps(sorted_positions, pos, size) ==
    LET all == [i \in 1..(Len(sorted_positions) - 1) |->
                  sorted_positions[i + 1][pos] - (sorted_positions[i][pos] + sorted_positions[i][size])]
    IN  SelectSeq(all, LAMBDA spacing : spacing > 0)

\* [layout_info, the spacings appended to self.spacing_patterns]
analyze_manual_layout(node) ==
    LET children == Get(node, "children", <<>>)
        boxed == SelectSeq(children, LAMBDA child : "absoluteBoundingBox" \in DOMAIN child)
        positions == [i \in 1..Len(boxed) |-> BoxSize(boxed[i].absoluteBoundingBox)]
        xs == {positions[i].x : i \in 1..Len(positions)}
        ys == {positions[i].y : i \in 1..Len(positions)}
        x_variance == SetMax(xs) - SetMin(xs)
        y_variance == SetMax(ys) - SetMin(ys)
        horizontal == x_variance > y_variance
        spacings == IF horizontal THEN Gaps(SortedByKey(positions, "x"), "x", "width")
                    ELSE Gaps(SortedByKey(positions, "y"), "y", "height")
        aligned == IF horizontal THEN Cardinality(ys) = 1 ELSE Cardinality(xs) = 1
    IN  IF Len(children) < 2 \/ Len(positions) < 2 THEN [info |-> EmptyDict, recorded |-> <<>>]
        ELSE [info |-> [direction |-> IF horizontal THEN k_horizontal ELSE k_vertical]
                       @@ (IF spacings # <<>> THEN [spacing |-> Ratio(Sum(spacings), Len(spacings))]
                           ELSE EmptyDict)
                       @@ (IF aligned THEN [alignment |-> k_center] ELSE EmptyDict),
              recorded |-> spacings]

Padding(node) ==
    (IF "paddingLeft" \in DOMAIN node THEN [left |-> node.paddingLeft] ELSE EmptyDict)
    @@ (IF "paddingRight" \in DOMAIN node THEN [right |-> node.paddingRight] ELSE EmptyDict)
    @@ (IF "paddingTop" \in DOMAIN node THEN [top |-> node.paddingTop] ELSE EmptyDict)
    @@ (IF "paddingBottom" \in DOMAIN node THEN [bottom |-> node.paddingBottom] ELSE EmptyDict)

\* [layout_info, the spacings appended to self.spacing_patterns]
analyze_layout_properties(node) ==
    IF "layoutMode" \in DOMAIN node
    THEN [info |-> [type |-> k_auto_layout, direction |-> Lower(node.layoutMode),
                    alignment |-> Lower(Get(node, "layoutAlign", k_STRETCH))]
                   @@ (IF "itemSpacing" \in DOMAIN node THEN [spacing |-> Ratio(node.itemSpacing, 1)]
                       ELSE EmptyDict)
                   @@ (IF DOMAIN Padding(node) # {} THEN [padding |-> Padding(node)] ELSE EmptyDict),
          recorded |-> IF "itemSpacing" \in DOMAIN node /\ node.itemSpacing > 0
                       THEN <<node.itemSpacing>> ELSE <<>>]
    ELSE IF "children" \in DOMAIN node /\ Len(node.children) > 1
    THEN [info |-> analyze_manual_layout(node).info @@ [type |-> k_manual],
          recorded |-> analyze_manual_layout(node).recorded]
    ELSE [info |-> [type |-> k_manual], recorded |-> <<>>]

\* Optional[ScreenLayout]
create_screen_layout(node) ==
    LET size == extract_size_info(node)
    IN  IF size = None THEN None
        ELSE Some([name |-> Get(node, "name", <<>>), type |-> Lower(Upper(Get(node, "type", <<>>))),
                   size |-> size[1],
                   background_color |-> extract_background_color(node),
                   children |-> extract_children_layouts(node),
                   layout |-> analyze_layout_properties(node).info])

\* as ScreenDepthRule, with the root FRAME a screen as well
ScreenDepthRule_root(node_type, depth) ==
    \/ node_type = s_FRAME /\ depth >= 0
    \/ node_type = s_CANVAS /\ depth = 1

ScreenDepthRule(node_type, depth) ==
    \/ node_type = s_FRAME /\ depth > 0
    \/ node_type = s_CANVAS /\ depth = 1

RECURSIVE extract_screens(_, _, _), extract_screens_children(_, _, _)
extract_screens(st, node, depth) ==
    LET node_type == Upper(Get(node, "type", <<>>))
        screen_layout == create_screen_layout(node)
        st1 == IF ScreenDepthRule(node_type, depth) /\ screen_layout # None
               THEN [st EXCEPT !.screens = Append(@, screen_layout[1]),
                               !.spacing_patterns = @ \o analyze_layout_properties(node).recorded]
               ELSE st
    IN  IF "children" \in DOMAIN node THEN extract_screens_children(st1, node.children, depth + 1)
        ELSE st1

\* for child in node["children"]: self._extract_screens(child, depth + 1)
extract_screens_children(st, children, depth) ==
    IF children = <<>> THEN st
    ELSE extract_screens_children(extract_screens(st, Head(children), depth), Tail(children), depth)

RECURSIVE CountDirections(_, _)
CountDirections(counts, directions) ==
    IF directions = <<>> THEN counts
    ELSE CountDirections(DictSet(counts, Head(directions), Get(counts, Head(directions), 0) + 1),
                         Tail(directions))

\* list(set(screen_sizes)): the hash of a tuple of numbers is not salted, so the
\* order is a fixed function of the sizes; it is taken ascending here
RECURSIVE UniqueSizes(_)
UniqueSizes(sizes) ==
    IF sizes = {} THEN <<>>
    ELSE LET w == SetMin({sz[1] : sz \in sizes})
             h == SetMin({sz[2] : sz \in {t \in sizes : t[1] = w}})
         IN  <<[width |-> w, height |-> h]>> \o UniqueSizes(sizes \ {<<w, h>>})

CommonSpacingTolerance == 2

\* as analyze_layout_patterns, with find_common_values grouping equal values only
analyze_layout_patterns_equal(st) ==
    LET screen_sizes == {<<st.screens[i].size.width, st.screens[i].size.height>> : i \in 1..Len(st.screens)}
        with_direction == SelectSeq(st.screens, LAMBDA screen : "direction" \in DOMAIN screen.layout)
        directions == [i \in 1..Len(with_direction) |-> with_direction[i].layout.direction]
    IN  [st EXCEPT !.layout_patterns =
            (IF directions # <<>> THEN [layout_directions |-> CountDirections(EmptyDict, directions)]
             ELSE EmptyDict)
            @@ [screen_sizes |-> UniqueSizes(screen_sizes)]
            @@ (IF st.spacing_patterns # <<>>
                THEN [common_spacing |-> find_common_values(st.spacing_patterns, 0)]
                ELSE EmptyDict)
            @@ @]

analyze_layout_patterns(st) ==
    LET screen_sizes == {<<st.screens[i].size.width, st.screens[i].size.height>> : i \in 1..Len(st.screens)}
        with_direction == SelectSeq(st.screens, LAMBDA screen : "direction" \in DOMAIN screen.layout)
        directions == [i \in 1..Len(with_direction) |-> with_direction[i].layout.direction]
    IN  [st EXCEPT !.layout_patterns =
            (IF directions # <<>> THEN [layout_directions |-> CountDirections(EmptyDict, directions)]
             ELSE EmptyDict)
            @@ [screen_sizes |-> UniqueSizes(screen_sizes)]
            @@ (IF st.spacing_patterns # <<>>
                THEN [common_spacing |-> find_common_values(st.spacing_patterns, CommonSpacingTolerance)]
                ELSE EmptyDict)
            @@ @]

GridTolerance == 2

\* spacing_counts, an insertion-ordered dict of the first spacing of a cluster
\* and the size of the cluster
RECURSIVE CountSpacings(_, _, _)
CountSpacings(spacing_counts, spacings, tolerance) ==
    IF spacings = <<>> THEN spacing_counts
    ELSE LET spacing == Head(spacings)
             near == {i \in 1..Len(spacing_counts) : Abs(spacing - spacing_counts[i].key) < tolerance}
         IN  CountSpacings(
                IF near # {} THEN [spacing_counts EXCEPT ![SetMin(near)].value = @ + 1]
                ELSE Append(spacing_counts, [key |-> spacing, value |-> 1]),
                Tail(spacings), tolerance)

\* max(spacing_counts, key=spacing_counts.get): the first key with the top count
MostCommon(spacing_counts) ==
    LET top == SetMax({spacing_counts[i].value : i \in 1..Len(spacing_counts)})
    IN  SetMin({i \in 1..Len(spacing_counts) : spacing_counts[i].value = top})

\* as BestSpacing, without "must appear at least twice"
BestSpacing_once(spacing_counts) ==
    IF spacing_counts # <<>> THEN Some(spacing_counts[MostCommon(spacing_counts)].key)
    ELSE None

\* the spacing with the highest count, if it appears at least twice
BestSpacing(spacing_counts) ==
    IF spacing_counts # <<>> /\ spacing_counts[MostCommon(spacing_counts)].value >= 2
    THEN Some(spacing_counts[MostCommon(spacing_counts)].key)
    ELSE None

\* Optional[float]
find_regular_spacing(positions, tolerance) ==
    LET sorted_positions == SortedByKey([i \in 1..Len(positions) |-> [p |-> positions[i]]], "p")
        deltas == [i \in 1..(Len(sorted_positions) - 1) |-> sorted_positions[i + 1].p - sorted_positions[i].p]
        spacings == SelectSeq(deltas, LAMBDA spacing : spacing > tolerance)
    IN  IF Len(positions) < 3 THEN None
        ELSE IF Len(spacings) < 2 THEN None
        ELSE BestSpacing(CountSpacings(<<>>, spacings, tolerance))

\* len(set([round(p / spacing) for p in positions]))
GridBuckets(positions, spacing) ==
    Cardinality({PyRound(positions[i], spacing) : i \in 1..Len(positions)})

\* Optional[Dict]
analyze_screen_grid(screen) ==
    LET x_positions == [i \in 1..Len(screen.children) |-> screen.children[i].position.x]
        y_positions == [i \in 1..Len(screen.children) |-> screen.children[i].position.y]
        x_spacing == find_regular_spacing(x_positions, GridTolerance)
        y_spacing == find_regular_spacing(y_positions, GridTolerance)
    IN  IF Len(screen.children) < 2 THEN None
        ELSE IF x_spacing # None \/ y_spacing # None
        THEN Some([screen |-> screen.name, x_spacing |-> x_spacing, y_spacing |-> y_spacing,
                   columns |-> IF x_spacing # None THEN Some(GridBuckets(x_positions, x_spacing[1])) ELSE None,
                   rows |-> IF y_spacing # None THEN Some(GridBuckets(y_positions, y_spacing[1])) ELSE None])
        ELSE None

RECURSIVE DetectGrids(_, _)
DetectGrids(grid_systems, screens) ==
    IF screens = <<>> THEN grid_systems
    ELSE DetectGrids(grid_systems \o analyze_screen_grid(Head(screens)), Tail(screens))

\* as detect_grid_systems, with the list emptied first
detect_grid_systems_reset(st) == [st EXCEPT !.grid_systems = DetectGrids(<<>>, st.screens)]

detect_grid_systems(st) == [st EXCEPT !.grid_systems = DetectGrids(@, st.screens)]

build_layout_output(st) ==
    [screens |-> [i \in 1..Len(st.screens) |->
        LET screen == st.screens[i]
        IN  [name |-> screen.name, type |-> screen.type, size |-> screen.size,
             children |-> screen.children, layout |-> screen.layout]
            @@ (IF screen.background_color # None THEN [background_color |-> screen.background_color[1]]
                ELSE EmptyDict)]]
    @@ (IF DOMAIN st.layout_patterns # {} THEN [layout_patterns |-> st.layout_patterns] ELSE EmptyDict)
    @@ (IF st.grid_systems # <<>> THEN [grid_systems |-> st.grid_systems] ELSE EmptyDict)

\* LayoutAnalyzer state after analyze_all_layouts
analyze_all_layouts(st, document) ==
    detect_grid_systems(analyze_layout_patterns(extract_screens(st, document, 0)))

(***************************************************************************)
(* design_asset_extractor/extractor.py: DesignAssetExtractor               *)
(***************************************************************************)
\* JSON null, loaded as None
JsonNull == [json_null |-> TRUE]

\* rgb_to_hex(color["r"], color["g"], color["b"]) and the int(color["r"] * 255)
\* of the layout analyzer raise on a colour record that lacks a channel
RgbRaises(color) == ~({"r", "g", "b"} \subseteq DOMAIN color)

\* _extract_colors_from_fills raises
FillsRaise(fills) ==
    \E i \in 1..Len(fills) :
        IF Get(fills[i], "type", <<>>) = s_SOLID /\ "color" \in DOMAIN fills[i]
        THEN RgbRaises(fills[i].color)
        ELSE /\ Get(fills[i], "type", <<>>) = s_GRADIENT_LINEAR
             /\ "gradientStops" \in DOMAIN fills[i]
             /\ \E j \in 1..Len(fills[i].gradientStops) :
                    /\ "color" \in DOMAIN fills[i].gradientStops[j]
                    /\ RgbRaises(fills[i].gradientStops[j].color)

\* _extract_colors_from_strokes raises
StrokesRaise(strokes) ==
    \E i \in 1..Len(strokes) :
        /\ Get(strokes[i], "type", <<>>) = s_SOLID
        /\ "color" \in DOMAIN strokes[i]
        /\ RgbRaises(strokes[i].color)

\* node["absoluteBoundingBox"] is None: '"width" in bbox' and bbox.get raise
NullBox(node) == "absoluteBoundingBox" \in DOMAIN node /\ node.absoluteBoundingBox = JsonNull

\* _extract_effects_from_node raises: a DROP_SHADOW colour is tested for "r"
\* only, then read for r, g and b
EffectsRaise(effects) ==
    \E i \in 1..Len(effects) :
        /\ Upper(Get(effects[i], "type", <<>>)) = s_DROP_SHADOW
        /\ "r" \in DOMAIN Get(effects[i], "color", EmptyDict)
        /\ RgbRaises(effects[i].color)

\* _extract_node_tokens raises on the node
TE_node_raises(node) ==
    \/ "fills" \in DOMAIN node /\ node.fills # <<>> /\ FillsRaise(node.fills)
    \/ "strokes" \in DOMAIN node /\ node.strokes # <<>> /\ StrokesRaise(node.strokes)
    \/ Upper(Get(node, "type", <<>>)) \in {s_FRAME, s_GROUP, s_COMPONENT, s_INSTANCE} /\ NullBox(node)
    \/ "effects" \in DOMAIN node /\ node.effects # <<>> /\ EffectsRaise(node.effects)

\* extract_all_tokens raises: no try/except lies between a node and
\* extract_all_assets, so the first raising node ends the traversal
RECURSIVE TE_raises(_)
TE_raises(node) ==
    \/ TE_node_raises(node)
    \/ "children" \in DOMAIN node /\ \E i \in 1..Len(node.children) : TE_raises(node.children[i])

\* _identify_components raises: bbox.get on None in _has_component_properties,
\* reached by a RECTANGLE without corner radius, fills and strokes, and in
\* _generate_component_id, reached by every component node
RECURSIVE CP_identify_raises(_)
CP_identify_raises(node) ==
    \/ /\ NullBox(node)
       /\ Upper(Get(node, "type", <<>>)) \notin {s_DOCUMENT, s_PAGE}
       /\ (is_component_node(node) \/ Upper(Get(node, "type", <<>>)) = s_RECTANGLE)
    \/ "children" \in DOMAIN node /\ \E i \in 1..Len(node.children) : CP_identify_raises(node.children[i])

\* _create_component_specs raises: _extract_component_children reads
\* bbox.get of every child of the base node of a pattern (the colour records
\* of the fills and strokes are those extract_all_tokens has read before)
CP_specs_raise(st, document) ==
    LET patterns == identify_components(st, document, <<>>, <<>>).component_patterns
    IN  \E i \in 1..Len(patterns) :
            LET base_node == NodeAt(document, patterns[i].value[1].node)
            IN  /\ "children" \in DOMAIN base_node
                /\ \E j \in 1..Len(base_node.children) : NullBox(base_node.children[j])

\* parse_all_components raises
CP_raises(st, document) == CP_identify_raises(document) \/ CP_specs_raise(st, document)

\* _extract_size_info raises: bbox.get on None
SizeRaises(node) ==
    IF "absoluteBoundingBox" \in DOMAIN node THEN node.absoluteBoundingBox = JsonNull
    ELSE "boundingBox" \in DOMAIN node /\ node.boundingBox = JsonNull

\* _create_screen_layout raises: the size of the screen, then the size of each
\* of its children in _extract_children_layouts
ScreenRaises(node) ==
    \/ SizeRaises(node)
    \/ "children" \in DOMAIN node /\ \E i \in 1..Len(node.children) : SizeRaises(node.children[i])

\* analyze_all_layouts raises
RECURSIVE LA_raises(_, _)
LA_raises(node, depth) ==
    \/ ScreenDepthRule(Upper(Get(node, "type", <<>>)), depth) /\ ScreenRaises(node)
    \/ "children" \in DOMAIN node /\ \E i \in 1..Len(node.children) : LA_raises(node.children[i], depth + 1)

(***************************************************************************)
(* figma_sdk/cache.py and the cache keys of figma_sdk/client.py            *)
(***************************************************************************)
s_json == <<".", "j", "s", "o", "n">>

\* str.isalnum on one character: letters and digits
isalnum(c) == c \in {Alphabet[i] : i \in 1..62}

\* FigmaCache._get_cache_path: the file name under cache_dir
get_cache_path(key) ==
    [i \in 1..Len(key) |-> IF isalnum(key[i]) THEN key[i] ELSE "_"] \o s_json

\* cache_key = f"{method}:{endpoint}:{str(params or {})}" of a GET without params
cache_key(endpoint) == <<"G", "E", "T", ":">> \o endpoint \o <<":", "{", "}">>

Endpoints == {<<"/", "a", "-", "b">>, <<"/", "a", "_", "b">>, <<"/", "a", "b">>}

CacheKeys == {cache_key(endpoint) : endpoint \in Endpoints}

CachePaths == {get_cache_path(key) : key \in CacheKeys}

\* the responses that are cached
CacheValues == {"v1", "v2"}

\* CacheEntry.__init__ and to_dict: the entry as it is stored in the file
CacheEntry(data, ttl, now) == [data |-> data, timestamp |-> now, ttl |-> ttl]

\* CacheEntry.is_expired
is_expired(entry, now) == now - entry.timestamp > entry.ttl

\* FigmaCache.__init__ over an empty directory; no call was made yet
CacheConstruct ==
    /\ cache_files = [path \in CachePaths |-> None]
    /\ clock = 0
    /\ last_set = [key \in CacheKeys |-> None]
    /\ last_call = [op |-> "none", key |-> <<>>, result |-> None, time |-> 0]

\* FigmaCache.set: the entry is written to the file of the key.  last_set
\* records the entry most recently set under each key and not deleted since.
CacheSet ==
    \E key \in CacheKeys, value \in CacheValues :
        LET entry == CacheEntry(value, CacheTtl, clock)
        IN  /\ cache_files' = [cache_files EXCEPT ![get_cache_path(key)] = Some(entry)]
            /\ last_set' = [last_set EXCEPT ![key] = Some(entry)]
            /\ last_call' = [op |-> "set", key |-> key, result |-> None, time |-> clock]
            /\ UNCHANGED <<clock, extractor_vars>>

\* FigmaCache.delete: the file of the key is unlinked if it exists
delete(files, key) == [files EXCEPT ![get_cache_path(key)] = None]

\* FigmaCache.get: None without a file; an expired entry is deleted and None
\* is returned; otherwise the data of the entry read from the file
CacheGet ==
    \E key \in CacheKeys :
        LET cache_path == get_cache_path(key)
            expired == cache_files[cache_path] # None /\ is_expired(cache_files[cache_path][1], clock)
        IN  /\ cache_files' = IF expired THEN delete(cache_files, key) ELSE cache_files
            /\ last_set' = IF expired THEN [last_set EXCEPT ![key] = None] ELSE last_set
            /\ last_call' = [op |-> "get", key |-> key, time |-> clock,
                             result |-> IF cache_files[cache_path] = None \/ expired THEN None
                                        ELSE Some(cache_files[cache_path][1].data)]
            /\ UNCHANGED <<clock, extractor_vars>>

CacheDelete ==
    \E key \in CacheKeys :
        /\ cache_files' = delete(cache_files, key)
        /\ last_set' = [last_set EXCEPT ![key] = None]
        /\ last_call' = [op |-> "delete", key |-> key, result |-> None, time |-> clock]
        /\ UNCHANGED <<clock, extractor_vars>>

\* time passes between two calls
Tick ==
    /\ clock < MaxClock
    /\ clock' = clock + 1
    /\ UNCHANGED <<cache_files, last_set, last_call, extractor_vars>>

NextCache ==
    \/ CacheSet
    \/ CacheGet
    \/ CacheDelete
    \/ Tick

\* DesignAssetExtractor.__init__: fresh analyzers over the loaded document
Construct ==
    /\ te = TokenExtractorInit
    /\ cp = ComponentParserInit
    /\ la = LayoutAnalyzerInit
    /\ extraction_results = EmptyDict
    /\ status = "none"
    /\ pc = "ready"

\* extract_from_figma_file: the file's "document" is loaded and the extractor
\* with its three analyzers is constructed over it
InitWith(documents) ==
    /\ figma_file \in documents
    /\ doc = figma_file
    /\ history = <<>>
    /\ Construct
    /\ CacheConstruct

\* as Failed, with the status of a completed run
Failed_success ==
    /\ status' = "success"
    /\ pc' = "failed"
    /\ UNCHANGED <<figma_file, doc, te, cp, la, extraction_results, history>>

\* the except block of extract_all_assets: the status and the message are
\* recorded and the exception is raised again; extraction_results keeps what
\* the try block has stored
Failed ==
    /\ status' = "error"
    /\ pc' = "failed"
    /\ UNCHANGED <<figma_file, doc, te, cp, la, extraction_results, history>>

\* extract_all_assets, step 1: self.token_extractor.extract_all_tokens()
ExtractTokens ==
    /\ pc = "ready"
    /\ UNCHANGED cache_vars
    /\ IF TE_raises(doc) THEN Failed
       ELSE /\ LET traversed == TE_traverse_document(te, doc)
               IN  \E color_list \in Orders(traversed.all_color_values) :
                   \E family_list \in Orders(traversed.all_font_families) :
                      /\ te' = extract_all_tokens(te, doc, color_list, family_list)
                      /\ extraction_results' = [design_tokens |-> build_token_output(te')] @@ extraction_results
            /\ pc' = "tokens"
            /\ UNCHANGED <<figma_file, doc, cp, la, status, history>>

\* extract_all_assets, step 2: self.component_parser.parse_all_components()
ParseComponents ==
    /\ pc = "tokens"
    /\ UNCHANGED cache_vars
    /\ IF CP_raises(cp, doc) THEN Failed
       ELSE /\ cp' = parse_all_components(cp, doc)
            /\ doc' = parse_all_components_document(cp, doc)
            /\ extraction_results' = [component_catalog |-> build_component_output(cp')] @@ extraction_results
            /\ pc' = "components"
            /\ UNCHANGED <<figma_file, te, la, status, history>>

\* extract_all_assets, step 3: self.layout_analyzer.analyze_all_layouts(), then
\* the summary is printed and the status is recorded.  Without a screen
\* get_layout_summary returns {"screens": 0} and layout_summary['total_screens']
\* raises KeyError after the three results are stored: the status is "error".
AnalyzeLayouts ==
    /\ pc = "components"
    /\ UNCHANGED cache_vars
    /\ IF LA_raises(doc, 0) THEN Failed
       ELSE /\ la' = analyze_all_layouts(la, doc)
            /\ extraction_results' = [screen_layouts |-> build_layout_output(la')] @@ extraction_results
            /\ status' = IF la'.screens = <<>> THEN "error" ELSE "success"
            /\ pc' = "done"
            /\ history' = Append(history, extraction_results')
            /\ UNCHANGED <<figma_file, doc, te, cp>>

\* extract_from_figma_file is run again on the same file: the document is
\* loaded anew and a new DesignAssetExtractor is constructed over it
RunAgain ==
    /\ pc = "done"
    /\ UNCHANGED cache_vars
    /\ Len(history) < MaxRuns
    /\ doc' = figma_file
    /\ te' = TokenExtractorInit
    /\ cp' = ComponentParserInit
    /\ la' = LayoutAnalyzerInit
    /\ extraction_results' = EmptyDict
    /\ status' = "none"
    /\ pc' = "ready"
    /\ UNCHANGED <<figma_file, history>>

\* save_outputs: the exception it raises, if any, and the files it has opened
\* for writing by then.  Each file is opened before the entry it takes is
\* read, so the file of the first missing entry is created as well.
save_outputs(results) ==
    IF results = EmptyDict THEN [raised |-> "ValueError", files |-> <<>>]
    ELSE IF "design_tokens" \notin DOMAIN results
    THEN [raised |-> "KeyError", files |-> <<"design_tokens.json">>]
    ELSE IF "component_catalog" \notin DOMAIN results
    THEN [raised |-> "KeyError", files |-> <<"design_tokens.json", "component_catalog.json">>]
    ELSE IF "screen_layouts" \notin DOMAIN results
    THEN [raised |-> "KeyError",
          files |-> <<"design_tokens.json", "component_catalog.json", "screen_layouts.json">>]
    ELSE [raised |-> "none",
          files |-> <<"design_tokens.json", "component_catalog.json", "screen_layouts.json",
                      "extraction_metadata.json", "all_assets.json">>]

Next ==
    \/ ExtractTokens
    \/ ParseComponents
    \/ AnalyzeLayouts
    \/ RunAgain

(***************************************************************************)
(* Input documents                                                         *)
(***************************************************************************)
n_Page_1 == <<"P", "a", "g", "e", " ", "1">>
n_Screen == <<"S", "c", "r", "e", "e", "n">>
n_box == <<"b", "o", "x">>
n_label == <<"l", "a", "b", "e", "l">>

Box(x, y, width, height) == [x |-> x, y |-> y, width |-> width, height |-> height]

Rgb(r, g, b) == [r |-> r, g |-> g, b |-> b, a |-> 1000]

Solid(color) == [type |-> s_SOLID, color |-> color]

\* a DOCUMENT with one CANVAS page holding the given nodes
Document(children) ==
    [type |-> s_DOCUMENT, name |-> <<"D", "o", "c", "u", "m", "e", "n", "t">>,
     children |-> <<[type |-> s_CANVAS, name |-> n_Page_1, children |-> children]>>]

\* sequences over S of length lo..hi
SeqsOf(S, lo, hi) == UNION {[1..n -> S] : n \in lo..hi}

\* Colours: channels in thousandths
c_ff0000 == Rgb(1000, 0, 0)
c_dc3545 == Rgb(863, 208, 271)
c_6257db == Rgb(385, 342, 859)
c_ffffff == Rgb(1000, 1000, 1000)
c_808080 == Rgb(502, 502, 502)
c_828282 == Rgb(510, 510, 510)
c_ff8800 == Rgb(1000, 534, 0)
c_0000ff == Rgb(0, 0, 1000)

MaxColorNodes == 2

ColorNodes ==
    {[type |-> s_RECTANGLE, name |-> n_box, fills |-> <<Solid(c)>>] :
        c \in {c_ff0000, c_dc3545, c_6257db, c_ffffff, c_808080, c_828282, c_ff8800}}
    \cup {[type |-> s_RECTANGLE, name |-> n_box, fills |-> <<>>, strokes |-> <<Solid(c_0000ff)>>],
          [type |-> s_RECTANGLE, name |-> n_box,
           fills |-> <<[type |-> s_GRADIENT_LINEAR,
                        gradientStops |-> <<[color |-> c_ff8800], [color |-> c_0000ff]>>]>>]}

ColorDocuments == {Document(kids) : kids \in SeqsOf(ColorNodes, 0, MaxColorNodes)}

InitColors == InitWith(ColorDocuments)

SpecColors == InitColors /\ [][Next]_vars

\* Spacing: layout nodes with a bounding box and/or auto-layout spacing
MaxSpacingNodes == 2

SpacingNodes ==
    {[type |-> s_GROUP, name |-> n_box, absoluteBoundingBox |-> Box(0, 0, w, h)] :
        w \in {6, 24, 300}, h \in {10, 98}}
    \cup {[type |-> s_FRAME, name |-> n_Screen, layoutMode |-> Upper(k_vertical), itemSpacing |-> g,
           paddingLeft |-> p, paddingRight |-> p] : g \in {0, 8, 18}, p \in {0, 13}}
    \cup {[type |-> s_RECTANGLE, name |-> n_box, absoluteBoundingBox |-> Box(0, 0, 16, 16)],
          [type |-> s_INSTANCE, name |-> n_box, itemSpacing |-> 8]}

SpacingDocuments == {Document(kids) : kids \in SeqsOf(SpacingNodes, 0, MaxSpacingNodes)}

InitSpacing == InitWith(SpacingDocuments)

SpecSpacing == InitSpacing /\ [][Next]_vars

\* Fingerprints: component nodes that differ in some of type, name, bounding
\* box, fills and cornerRadius, each of the last three present or absent
MaxFingerprintNodes == 2

n_a == <<"a">>
n_Frame_a == <<"F", "r", "a", "m", "e", " ", "a">>
n_a_10x20 == <<"a", "|", "1", "0", "x", "2", "0">>

WithOptional(node, optional) ==
    node @@ optional[1] @@ optional[2] @@ optional[3]

FingerprintNodes ==
    {WithOptional([type |-> s_INSTANCE, name |-> name], <<bbox, fills, radius>>) :
        name \in {n_a, n_Frame_a, n_a_10x20},
        bbox \in {EmptyDict, [absoluteBoundingBox |-> Box(0, 0, 10, 20)]},
        fills \in {EmptyDict, [fills |-> <<Solid(c_6257db)>>]},
        radius \in {EmptyDict, [cornerRadius |-> 8]}}
    \cup {[type |-> s_COMPONENT, name |-> n_a]}

FingerprintDocuments == {Document(kids) : kids \in SeqsOf(FingerprintNodes, 0, MaxFingerprintNodes)}

InitFingerprint == InitWith(FingerprintDocuments)

SpecFingerprint == InitFingerprint /\ [][Next]_vars

\* Screens: a root (a DOCUMENT, or a FRAME with a box) over nodes at depth 1,
\* some of them with one node at depth 2; every node has a name of its own
MaxScreenNodes == 2

n_root == <<"r", "o", "o", "t">>

ScreenBox == Box(0, 0, 300, 500)

NodeKinds(types, sizings) == {[type |-> t, sizing |-> z] : t \in types, z \in sizings}

ScreenSubtrees ==
    {[kind |-> k, inner |-> inner] :
        k \in NodeKinds({s_FRAME, s_CANVAS}, {[absoluteBoundingBox |-> ScreenBox], EmptyDict}),
        inner \in {None} \cup {Some(i) : i \in NodeKinds({s_FRAME, s_CANVAS}, {[absoluteBoundingBox |-> ScreenBox]})}}
    \cup {[kind |-> k, inner |-> None] :
             k \in NodeKinds({s_FRAME}, {[boundingBox |-> ScreenBox], [width |-> 300, height |-> 500]})}

NamedNode(kind, name) == [type |-> kind.type, name |-> name] @@ kind.sizing

ScreenSubtree(subtree, i) ==
    LET name == <<"s">> \o Digits(i)
    IN  NamedNode(subtree.kind, name)
        @@ (IF subtree.inner = None THEN EmptyDict
            ELSE [children |-> <<NamedNode(subtree.inner[1], name \o <<"-", "1">>)>>])

ScreenDocuments ==
    {NamedNode(root, n_root) @@ [children |-> [i \in 1..Len(subtrees) |-> ScreenSubtree(subtrees[i], i)]] :
        root \in NodeKinds({s_DOCUMENT}, {EmptyDict}) \cup NodeKinds({s_FRAME}, {[absoluteBoundingBox |-> ScreenBox]}),
        subtrees \in SeqsOf(ScreenSubtrees, 0, MaxScreenNodes)}

InitScreens == InitWith(ScreenDocuments)

SpecScreens == InitScreens /\ [][Next]_vars

\* Grids: one FRAME screen whose children are placed from a first position
\* by a sequence of steps along x, and in one row, a column or a scatter
MaxGridSteps == 2

GridSteps == {1, 100, 101, 102, 107}

GridOffsets == {0, 50, 100}

RECURSIVE Placed(_, _)
Placed(first, steps) ==
    IF steps = <<>> THEN <<first>> ELSE <<first>> \o Placed(first + Head(steps), Tail(steps))

GridRows == {<<0, 0, 0, 0>>, <<0, 60, 120, 180>>, <<0, 60, 133, 340>>}

GridScreen(xs, ys) ==
    [type |-> s_FRAME, name |-> n_Screen, absoluteBoundingBox |-> Box(0, 0, 400, 400),
     children |-> [i \in 1..Len(xs) |->
         [type |-> s_RECTANGLE, name |-> n_box, absoluteBoundingBox |-> Box(xs[i], ys[i], 40, 40)]]]

GridDocuments ==
    {Document(<<GridScreen(Placed(first, steps), ys)>>) :
        first \in GridOffsets, steps \in SeqsOf(GridSteps, 2, MaxGridSteps), ys \in GridRows}

InitGrids == InitWith(GridDocuments)

SpecGrids == InitGrids /\ [][Next]_vars

\* Typography: TEXT nodes with a font size (tenths of a pixel) and a font
\* weight given as a number or as a name, or without a style
MaxTextNodes == 2

n_Roboto == <<"R", "o", "b", "o", "t", "o">>

TextNode(style) == [type |-> s_TEXT, name |-> n_label, style |-> style]

TextNodes ==
    {TextNode([fontSize |-> s, fontWeight |-> w]) :
        s \in {120, 240, 245},
        w \in {[num |-> 400], [num |-> 700], [num |-> 950], [str |-> <<"B", "o", "l", "d">>]}}
    \cup {TextNode([fontSize |-> 120, fontWeight |-> [num |-> 450]]),
          TextNode([fontSize |-> 320, fontWeight |-> [num |-> 600], fontFamily |-> n_Roboto]),
          TextNode([fontSize |-> 160, fontFamily |-> s_Inter]),
          [type |-> s_TEXT, name |-> n_label]}

TextDocuments == {Document(kids) : kids \in SeqsOf(TextNodes, 0, MaxTextNodes)}

InitTypography == InitWith(TextDocuments)

SpecTypography == InitTypography /\ [][Next]_vars

\* The LoginScreen scenario: one CANVAS with one FRAME 'LoginScreen' (300x500)
\* over a RECTANGLE 'bg', a RECTANGLE 'button-primary' and a TEXT 'Welcome';
\* what the scenario leaves open (the DOCUMENT above the canvas, the canvas
\* name, x positions, the text's box, fill and family) is varied
n_LoginScreen == <<"L", "o", "g", "i", "n", "S", "c", "r", "e", "e", "n">>
n_bg == <<"b", "g">>
n_button_primary == <<"b", "u", "t", "t", "o", "n", "-", "p", "r", "i", "m", "a", "r", "y">>
n_Welcome == <<"W", "e", "l", "c", "o", "m", "e">>
n_Canvas == <<"C", "a", "n", "v", "a", "s">>

c_000000 == Rgb(0, 0, 0)

LoginScreen(button_x, text_box, text_extra) ==
    [type |-> s_FRAME, name |-> n_LoginScreen, absoluteBoundingBox |-> Box(0, 0, 300, 500),
     children |-> <<
        [type |-> s_RECTANGLE, name |-> n_bg, absoluteBoundingBox |-> Box(0, 0, 300, 500),
         fills |-> <<Solid(c_ffffff)>>],
        [type |-> s_RECTANGLE, name |-> n_button_primary,
         absoluteBoundingBox |-> Box(button_x, 400, 120, 40), cornerRadius |-> 8,
         fills |-> <<Solid(c_6257db)>>],
        [type |-> s_TEXT, name |-> n_Welcome, absoluteBoundingBox |-> text_box,
         characters |-> n_Welcome,
         style |-> [fontSize |-> 240, fontWeight |-> [num |-> 700]]] @@ text_extra>>]

LoginDocuments ==
    {IF wrapped THEN [type |-> s_DOCUMENT, name |-> n_root, children |-> <<canvas>>] ELSE canvas :
        wrapped \in BOOLEAN,
        canvas \in {[type |-> s_CANVAS, name |-> canvas_name,
                     children |-> <<LoginScreen(button_x, text_box, text_extra)>>] :
                        canvas_name \in {n_Page_1, n_Canvas},
                        button_x \in {0, 90, 180},
                        text_box \in {Box(0, 50, 300, 30), Box(100, 50, 100, 24)},
                        text_extra \in {EmptyDict, [fills |-> <<Solid(c_000000)>>],
                                        [fills |-> <<Solid(c_6257db)>>]}}}

InitLogin == InitWith(LoginDocuments)

SpecLogin == InitLogin /\ [][Next]_vars

\* The variant scenario: two INSTANCE nodes 'Button Primary' and 'Button
\* Disabled' that agree on box dimensions, fill types and corner radius, each
\* of the three given or left out, in either order and at any position
n_Button_Primary == <<"B", "u", "t", "t", "o", "n", " ", "P", "r", "i", "m", "a", "r", "y">>
n_Button_Disabled == <<"B", "u", "t", "t", "o", "n", " ", "D", "i", "s", "a", "b", "l", "e", "d">>

VariantPairs ==
    {<<WithOptional([type |-> s_INSTANCE, name |-> n_Button_Primary], <<bbox[1], fills[1], radius>>),
       WithOptional([type |-> s_INSTANCE, name |-> n_Button_Disabled], <<bbox[2], fills[2], radius>>)>> :
        bbox \in {<<EmptyDict, EmptyDict>>,
                  <<[absoluteBoundingBox |-> Box(0, 0, 120, 40)], [absoluteBoundingBox |-> Box(0, 0, 120, 40)]>>,
                  <<[absoluteBoundingBox |-> Box(0, 0, 120, 40)], [absoluteBoundingBox |-> Box(200, 60, 120, 40)]>>},
        fills \in {<<EmptyDict, EmptyDict>>,
                   <<[fills |-> <<Solid(c_6257db)>>], [fills |-> <<Solid(c_6257db)>>]>>,
                   <<[fills |-> <<Solid(c_6257db)>>], [fills |-> <<Solid(c_808080)>>]>>},
        radius \in {EmptyDict, [cornerRadius |-> 8]}}

VariantDocuments ==
    {Document(pair) : pair \in VariantPairs} \cup {Document(<<pair[2], pair[1]>>) : pair \in VariantPairs}

InitVariants == InitWith(VariantDocuments)

SpecVariants == InitVariants /\ [][Next]_vars

\* Documents with malformed nodes: colour records that lack a channel and
\* bounding boxes that are null, next to well-formed nodes.
MaxMalformedNodes == 2

TextChild(bbox) == TextNode([fontSize |-> 240, fontWeight |-> [num |-> 700]]) @@ [absoluteBoundingBox |-> bbox]

MalformedNodes ==
    {[type |-> s_RECTANGLE, name |-> n_box, fills |-> <<Solid(c_ff0000)>>,
      absoluteBoundingBox |-> Box(0, 0, 100, 40)],
     [type |-> s_RECTANGLE, name |-> n_box, fills |-> <<Solid([r |-> 1000, b |-> 0])>>],
     [type |-> s_RECTANGLE, name |-> n_box, strokes |-> <<Solid([r |-> 1000, g |-> 0])>>],
     [type |-> s_RECTANGLE, name |-> n_box,
      effects |-> <<[type |-> s_DROP_SHADOW, radius |-> 4, color |-> [r |-> 0]]>>],
     [type |-> s_INSTANCE, name |-> n_a, absoluteBoundingBox |-> JsonNull],
     [type |-> s_RECTANGLE, name |-> n_box, absoluteBoundingBox |-> JsonNull],
     TextNode([fontSize |-> 240, fontWeight |-> [num |-> 700]]),
     [type |-> s_FRAME, name |-> n_Screen, absoluteBoundingBox |-> ScreenBox,
      children |-> <<TextChild(Box(10, 10, 100, 20))>>],
     [type |-> s_FRAME, name |-> n_Screen, absoluteBoundingBox |-> ScreenBox,
      children |-> <<TextChild(JsonNull)>>]}

MalformedDocuments == {Document(kids) : kids \in SeqsOf(MalformedNodes, 0, MaxMalformedNodes)}

InitMalformed == InitWith(MalformedDocuments)

SpecMalformed == InitMalformed /\ [][Next]_vars

\* Documents whose frames record their geometry in full, in part or not at
\* all: frames named s1, s2, .. on the page.
MaxSizeNodes == 2

SizeSizings ==
    {[absoluteBoundingBox |-> ScreenBox],
     [absoluteBoundingBox |-> EmptyDict],
     [absoluteBoundingBox |-> [width |-> 300, height |-> 500]],
     [absoluteBoundingBox |-> [x |-> 10, y |-> 20]],
     [boundingBox |-> [width |-> 300]],
     EmptyDict}

SizeDocuments ==
    {Document([i \in 1..Len(sizings) |-> [type |-> s_FRAME, name |-> <<"s">> \o Digits(i)] @@ sizings[i]]) :
        sizings \in SeqsOf(SizeSizings, 0, MaxSizeNodes)}

InitSizes == InitWith(SizeDocuments)

SpecSizes == InitSizes /\ [][Next]_vars

\* Documents for the identification pass: rectangles with and without corner
\* radius, paints and box, groups of one or two children, and nodes that
\* qualify or are excluded by type or name.
MaxCandidateNodes == 1

s_ELLIPSE == <<"E", "L", "L", "I", "P", "S", "E">>

n_card == <<"c", "a", "r", "d">>
n_card_button == <<"c", "a", "r", "d", "-", "b", "u", "t", "t", "o", "n">>
n_badge_field == <<"b", "a", "d", "g", "e", "-", "f", "i", "e", "l", "d">>

\* names that are empty or only a noise prefix
NoiseNames ==
    {<<>>, <<"r", "e", "c", "t">>, <<"R", "e", "c", "t">>, <<"f", "r", "a", "m", "e">>,
     <<"g", "r", "o", "u", "p">>, <<"E", "l", "l", "i", "p", "s", "e">>}

CandidateRectangles ==
    {[type |-> s_RECTANGLE, name |-> n_box] @@ radius @@ paint @@ box :
        radius \in {EmptyDict, [cornerRadius |-> 0], [cornerRadius |-> 8]},
        paint \in {EmptyDict, [fills |-> <<Solid(c_ff0000)>>], [strokes |-> <<Solid(c_000000)>>]},
        box \in {EmptyDict} \cup {[absoluteBoundingBox |-> b] :
                    b \in {Box(0, 0, 100, 40), Box(0, 0, 10, 10), Box(0, 0, 600, 40)}}}

GroupChildren ==
    {[type |-> s_RECTANGLE, name |-> n_bg], [type |-> s_RECTANGLE, name |-> k_icon],
     [type |-> s_TEXT, name |-> n_label], [type |-> s_ELLIPSE, name |-> n_bg]}

CandidateGroups ==
    {[type |-> s_GROUP, name |-> n_box, children |-> kids] : kids \in SeqsOf(GroupChildren, 1, 2)}

CandidateNodes ==
    CandidateRectangles \cup CandidateGroups
    \cup {[type |-> s_PAGE, name |-> n_button_primary], [type |-> s_FRAME, name |-> n_button_primary],
          [type |-> s_FRAME, name |-> n_box, absoluteBoundingBox |-> ScreenBox],
          [type |-> s_INSTANCE, name |-> n_box], [type |-> s_TEXT, name |-> n_label]}
    \cup {[type |-> s_INSTANCE, name |-> name] : name \in NoiseNames \cup {n_card, n_card_button, n_badge_field}}

CandidateDocuments == {Document(kids) : kids \in SeqsOf(CandidateNodes, 1, MaxCandidateNodes)}

InitCandidates == InitWith(CandidateDocuments)

SpecCandidates == InitCandidates /\ [][Next]_vars

\* Documents with one frame of manual layout: its children are placed on a
\* small lattice by absoluteBoundingBox, carry a boundingBox only, or have no
\* box at all.
MaxManualChildren == 3

ManualChildren ==
    {[type |-> s_TEXT, name |-> n_label, absoluteBoundingBox |-> Box(x, y, 20, 20)] :
        x \in {0, 100}, y \in {0, 55, 110}}
    \cup {[type |-> s_TEXT, name |-> n_label, boundingBox |-> Box(300, 0, 20, 20)],
          [type |-> s_TEXT, name |-> n_label]}

ManualDocuments ==
    {Document(<<[type |-> s_FRAME, name |-> n_Screen, absoluteBoundingBox |-> ScreenBox,
                 children |-> kids]>>) :
        kids \in SeqsOf(ManualChildren, 2, MaxManualChildren)}

InitManual == InitWith(ManualDocuments)

SpecManual == InitManual /\ [][Next]_vars

\* Documents of auto-layout frames: each frame is a screen with an item
\* spacing that is negative, zero, small or large.
MaxAutoFrames == 3

AutoFrames ==
    {[type |-> s_FRAME, name |-> n_Screen, absoluteBoundingBox |-> ScreenBox,
      layoutMode |-> Upper(k_vertical), itemSpacing |-> spacing] : spacing \in {-4, 0, 1, 8, 100}}

AutoLayoutDocuments == {Document(kids) : kids \in SeqsOf(AutoFrames, 0, MaxAutoFrames)}

InitAutoLayout == InitWith(AutoLayoutDocuments)

SpecAutoLayout == InitAutoLayout /\ [][Next]_vars

\* The file cache of the HTTP client, over an empty cache directory
InitCache == InitWith({Document(<<>>)})

SpecCache == InitCache /\ [][NextCache]_vars

(***************************************************************************)
(* Properties of the colour tokens                                         *)
(***************************************************************************)
\* C1 (Determinism): every two full runs of the extraction over the same
\* input tree, each with newly constructed analyzers, return the same
\* design_tokens, component_catalog and screen_layouts, whatever the order
\* in which the collected colour set is iterated.
C1_Determinism ==
    \A i, j \in 1..Len(history) : history[i] = history[j]

\* the number of entries of the three colour maps that hold the hex value
Occurrences(colors, hex) ==
    Cardinality({k \in DOMAIN colors.semantic : colors.semantic[k] = hex})
    + Cardinality({k \in DOMAIN colors.neutral : colors.neutral[k] = hex})
    + Cardinality({k \in DOMAIN colors.brand : colors.brand[k] = hex})

\* C2 (Color partition): after extract_all_tokens every distinct hex value
\* observed in fills and strokes is held by exactly one entry of the
\* semantic, neutral and brand maps taken together.
C2_ColorPartition ==
    pc \in {"tokens", "components", "done"} =>
        \A hex \in te.all_color_values :
            Occurrences(extraction_results.design_tokens.colors, hex) = 1

(***************************************************************************)
(* Properties of the spacing scale                                         *)
(***************************************************************************)
\* C3 (Totality of the spacing scale): after extract_all_tokens the spacing
\* output has all twelve canonical step keys, for every input; each step
\* holds the observed value closest to its canonical value when that is
\* within the 4px tolerance, and the canonical value otherwise.
C3_SpacingTotality ==
    pc \in {"tokens", "components", "done"} =>
        LET spacing == extraction_results.design_tokens.spacing
            observed == Range(te.all_spacing_values)
        IN  /\ DOMAIN spacing = Range(scale_steps)
            /\ \A i \in 1..Len(common_scales) :
                  LET canonical == common_scales[i]
                      value == spacing[scale_steps[i]]
                      near == {v \in observed : Abs(v - canonical) < 4}
                  IN  IF near = {} THEN value = canonical
                      ELSE /\ value \in near
                           /\ \A u \in observed : Abs(value - canonical) <= Abs(u - canonical)

(***************************************************************************)
(* Properties of the component fingerprint                                 *)
(***************************************************************************)
\* the component instances collected by _identify_components
Identified ==
    UNION {Range(cp.component_patterns[i].value) : i \in 1..Len(cp.component_patterns)}

\* the five fields of a node that the fingerprint is made of, an optional
\* field being absent or present with its value
FiveFields(node) ==
    <<Get(node, "type", <<>>),
      clean_component_name(Get(node, "name", <<>>)),
      IF "absoluteBoundingBox" \in DOMAIN node
      THEN Some(<<Get(node.absoluteBoundingBox, "width", 0), Get(node.absoluteBoundingBox, "height", 0)>>)
      ELSE None,
      IF "fills" \in DOMAIN node THEN Some(FillTypes(node.fills)) ELSE None,
      IF "cornerRadius" \in DOMAIN node THEN Some(node.cornerRadius) ELSE None>>

\* C4 (Fingerprint stability): two identified nodes have the same
\* fingerprint if and only if they agree on type, cleaned name, bounding-box
\* dimensions, fill types and cornerRadius, with the digest collision-free.
C4_FingerprintStability ==
    pc \in {"components", "done"} =>
        \A a, b \in Identified :
            (a.id = b.id) <=>
                FiveFields(NodeAt(figma_file, a.node)) = FiveFields(NodeAt(figma_file, b.node))

(***************************************************************************)
(* Properties of the screens                                               *)
(***************************************************************************)
\* the references of all nodes of a tree
RECURSIVE Paths(_)
Paths(node) ==
    {<<>>} \cup
    (IF "children" \in DOMAIN node
     THEN UNION {{<<i>> \o p : p \in Paths(node.children[i])} : i \in 1..Len(node.children)}
     ELSE {})

\* p comes before q in document order (pre-order)
RECURSIVE Before(_, _)
Before(p, q) ==
    IF p = <<>> THEN q # <<>>
    ELSE IF q = <<>> THEN FALSE
    ELSE IF Head(p) = Head(q) THEN Before(Tail(p), Tail(q))
    ELSE Head(p) < Head(q)

Resolvable(node) ==
    \/ "absoluteBoundingBox" \in DOMAIN node
    \/ "boundingBox" \in DOMAIN node
    \/ ("width" \in DOMAIN node /\ "height" \in DOMAIN node /\ node.width > 0 /\ node.height > 0)

\* the nodes the inclusion rule makes screens: a FRAME below the root, a
\* CANVAS directly under the root, each with a resolvable box
ScreenPaths ==
    {p \in Paths(figma_file) :
        LET node == NodeAt(figma_file, p)
        IN  /\ Resolvable(node)
            /\ \/ (node.type = s_FRAME /\ Len(p) >= 1)
               \/ (node.type = s_CANVAS /\ Len(p) = 1)}

PathOfName(name) == CHOOSE p \in Paths(figma_file) : NodeAt(figma_file, p).name = name

\* C5 (Screen inclusion rule): after analyze_all_layouts the root is no
\* screen, every FRAME at depth >= 1 with a resolvable box is a screen
\* exactly once, a CANVAS only at depth 1, no other node is a screen, and
\* the screens are in document order.
C5_ScreenInclusion ==
    pc = "done" =>
        LET screens == extraction_results.screen_layouts.screens
        IN  /\ \A p \in Paths(figma_file) :
                  Cardinality({i \in 1..Len(screens) : screens[i].name = NodeAt(figma_file, p).name})
                      = (IF p \in ScreenPaths THEN 1 ELSE 0)
            /\ \A i, j \in 1..Len(screens) :
                  i < j => Before(PathOfName(screens[i].name), PathOfName(screens[j].name))

\* a run has emitted a nested FRAME and a CANVAS at depth 1 as screens, has
\* left out a CANVAS at depth 2 and a FRAME without a box, under a root FRAME
C5_Witness ==
    /\ pc = "done"
    /\ figma_file.type = s_FRAME
    /\ Len(extraction_results.screen_layouts.screens) = 2
    /\ \E p \in ScreenPaths : Len(p) = 2 /\ NodeAt(figma_file, p).type = s_FRAME
    /\ \E p \in ScreenPaths : NodeAt(figma_file, p).type = s_CANVAS
    /\ \E p \in Paths(figma_file) \ ScreenPaths :
          Len(p) = 2 /\ NodeAt(figma_file, p).type = s_CANVAS
    /\ \E p \in Paths(figma_file) \ ScreenPaths :
          Len(p) = 1 /\ NodeAt(figma_file, p).type = s_FRAME

(***************************************************************************)
(* Properties of the grid detection                                        *)
(***************************************************************************)
ScreensOut == extraction_results.screen_layouts.screens

GridsOut ==
    IF "grid_systems" \in DOMAIN extraction_results.screen_layouts
    THEN extraction_results.screen_layouts.grid_systems
    ELSE <<>>

XPositions(screen) == [i \in 1..Len(screen.children) |-> screen.children[i].position.x]

YPositions(screen) == [i \in 1..Len(screen.children) |-> screen.children[i].position.y]

\* at least 3 positions, each 100 after the one before
SpacedBy100(positions) ==
    /\ Len(positions) >= 3
    /\ \A i \in 1..(Len(positions) - 1) : positions[i + 1] - positions[i] = 100

\* C6 (Grid detection on regular spacing): a screen whose children have x
\* positions spaced exactly 100px apart, from any first position, has a grid
\* result with x_spacing = 100 and columns = the number of distinct x
\* positions.
C6_RegularGrid ==
    pc = "done" =>
        \A s \in 1..Len(ScreensOut) :
            SpacedBy100(XPositions(ScreensOut[s])) =>
                \E g \in 1..Len(GridsOut) :
                    /\ GridsOut[g].screen = ScreensOut[s].name
                    /\ GridsOut[g].x_spacing = Some(100)
                    /\ GridsOut[g].columns = Some(Cardinality(Range(XPositions(ScreensOut[s]))))

\* the deltas between consecutive distinct positions that exceed the tolerance
BigDeltas(positions) ==
    LET sorted == SortedSeq(Range(positions))
    IN  SelectSeq([i \in 1..(Len(sorted) - 1) |-> sorted[i + 1] - sorted[i]], LAMBDA d : d > 2)

\* no two of those deltas lie within 2px of each other
Irregular(positions) ==
    \A i, j \in 1..Len(BigDeltas(positions)) :
        i # j => Abs(BigDeltas(positions)[i] - BigDeltas(positions)[j]) >= 2

\* C7 (Grid detection on irregular spacing): a screen on which neither axis
\* has two position deltas above the 2px tolerance within 2px of each other
\* has no entry in grid_systems.
C7_IrregularNoGrid ==
    pc = "done" =>
        \A s \in 1..Len(ScreensOut) :
            (Irregular(XPositions(ScreensOut[s])) /\ Irregular(YPositions(ScreensOut[s]))) =>
                \A g \in 1..Len(GridsOut) : GridsOut[g].screen # ScreensOut[s].name

\* a finished run over a screen of three children scattered on both axes,
\* with two deltas above the tolerance on each, and without a grid entry
C7_Witness ==
    /\ pc = "done"
    /\ \E s \in 1..Len(ScreensOut) :
          /\ Len(ScreensOut[s].children) >= 3
          /\ Irregular(XPositions(ScreensOut[s])) /\ Len(BigDeltas(XPositions(ScreensOut[s]))) >= 2
          /\ Irregular(YPositions(ScreensOut[s])) /\ Len(BigDeltas(YPositions(ScreensOut[s]))) >= 2
          /\ \A g \in 1..Len(GridsOut) : GridsOut[g].screen # ScreensOut[s].name

(***************************************************************************)
(* Properties of the typography tokens                                     *)
(***************************************************************************)
TypographyOut == extraction_results.design_tokens.typography

\* the TEXT nodes with a style, in document order (all are children of the page)
StyledTexts ==
    SelectSeq(figma_file.children[1].children,
              LAMBDA node : node.type = s_TEXT /\ "style" \in DOMAIN node)

SizeOf(node) == IF "fontSize" \in DOMAIN node.style THEN node.style.fontSize ELSE 160

\* '<band>-<int(s)>' of a size in tenths
BandName(size) ==
    (IF size >= 320 THEN <<"h", "e", "a", "d", "i", "n", "g">>
     ELSE IF size >= 200 THEN <<"s", "u", "b", "h", "e", "a", "d", "i", "n", "g">>
     ELSE IF size >= 160 THEN <<"b", "o", "d", "y">>
     ELSE <<"c", "a", "p", "t", "i", "o", "n">>)
    \o <<"-">> \o Digits(size \div 10)

\* the normalized weight: a name by its table, a number clamped to 100..900
WeightOf(node) ==
    IF "fontWeight" \notin DOMAIN node.style THEN 400
    ELSE IF IsStr(node.style.fontWeight)
    THEN (IF Lower(node.style.fontWeight.str) = <<"b", "o", "l", "d">> THEN 700 ELSE 400)
    ELSE IF node.style.fontWeight.num > 900 THEN 900
    ELSE IF node.style.fontWeight.num < 100 THEN 100
    ELSE node.style.fontWeight.num

FirstOfName ==
    {i \in 1..Len(StyledTexts) :
        \A j \in 1..(i - 1) : BandName(SizeOf(StyledTexts[j])) # BandName(SizeOf(StyledTexts[i]))}

ComponentsOut == extraction_results.component_catalog.components

ColorsOut == extraction_results.design_tokens.colors

Values(d) == {d[k] : k \in DOMAIN d}

\* C9 (LoginScreen scenario): the extraction of the scenario document
\* returns exactly one screen, 'LoginScreen', with its 3 children in
\* document order; exactly one component named 'button-primary', of type
\* 'interactive' and category 'buttons'; #6257db in the semantic or brand
\* colours and white = #ffffff in the neutral colours.
C9_LoginScreen ==
    pc = "done" =>
        /\ Len(ScreensOut) = 1
        /\ ScreensOut[1].name = n_LoginScreen
        /\ [i \in 1..Len(ScreensOut[1].children) |-> ScreensOut[1].children[i].name]
              = <<n_bg, n_button_primary, n_Welcome>>
        /\ Cardinality({i \in 1..Len(ComponentsOut) : ComponentsOut[i].name = n_button_primary}) = 1
        /\ \A i \in 1..Len(ComponentsOut) :
              ComponentsOut[i].name = n_button_primary =>
                  /\ ComponentsOut[i].type = <<"i", "n", "t", "e", "r", "a", "c", "t", "i", "v", "e">>
                  /\ ComponentsOut[i].category = <<"b", "u", "t", "t", "o", "n", "s">>
        /\ s__6257db \in Values(ColorsOut.semantic) \cup Values(ColorsOut.brand)
        /\ s_white \in DOMAIN ColorsOut.neutral
        /\ ColorsOut.neutral[s_white] = s__ffffff

\* a finished run over the scenario document under a DOCUMENT, with the
\* button in the catalogue and its colour among the semantic colours
C9_Witness ==
    /\ pc = "done"
    /\ figma_file.type = s_DOCUMENT
    /\ figma_file.children[1].children[1].name = n_LoginScreen
    /\ \E i \in 1..Len(ComponentsOut) : ComponentsOut[i].name = n_button_primary
    /\ ColorsOut.semantic = (s_primary :> s__6257db)

(***************************************************************************)
(* Properties of the variant scenario                                      *)
(***************************************************************************)
\* C10 (Variant scenario): the two INSTANCE nodes 'Button Primary' and
\* 'Button Disabled' produce exactly one ComponentSpec in the catalog, with
\* exactly two variants, named 'primary' and 'disabled'.
C10_VariantScenario ==
    pc \in {"components", "done"} =>
        /\ Len(ComponentsOut) = 1
        /\ Len(ComponentsOut[1].variants) = 2
        /\ {ComponentsOut[1].variants[i].name : i \in 1..Len(ComponentsOut[1].variants)}
              = {<<"p", "r", "i", "m", "a", "r", "y">>, <<"d", "i", "s", "a", "b", "l", "e", "d">>}

(***************************************************************************)
(* Properties of the component catalogue                                   *)
(***************************************************************************)
\* C11 (One ComponentSpec per fingerprint): after parse_all_components the
\* catalog holds exactly one component for each distinct fingerprint of the
\* identification pass, also when two fingerprints have the same component
\* name; no spec is overwritten.
C11_OneSpecPerFingerprint ==
    pc \in {"components", "done"} =>
        Len(ComponentsOut) = Cardinality({a.id : a \in Identified})

(***************************************************************************)
(* Properties of the traversal order                                       *)
(***************************************************************************)
\* the document with the children of the page in the opposite order
SiblingsReversed(document) ==
    LET page == document.children[1]
        n == Len(page.children)
    IN  Document([i \in 1..n |-> page.children[n + 1 - i]])

\* every design_tokens record extract_all_tokens can return for a document
TokensOf(document) ==
    LET traversed == TE_traverse_document(TokenExtractorInit, document)
    IN  {build_token_output(extract_all_tokens(TokenExtractorInit, document, color_list, family_list)) :
            color_list \in Orders(traversed.all_color_values),
            family_list \in Orders(traversed.all_font_families)}

\* C12 (Classification is independent of visitation order): the design_tokens
\* returned by extract_all_tokens for a document are also returned for the
\* document that holds the same nodes with the siblings in the opposite
\* order.
C12_OrderIndependence ==
    pc \in {"tokens", "components", "done"} =>
        extraction_results.design_tokens \in TokensOf(SiblingsReversed(figma_file))

(***************************************************************************)
(* Properties of the error handling                                        *)
(***************************************************************************)
\* C13 (Fatal extraction error): when one of the three analyzers has raised
\* during extract_all_assets, the status is 'error' and extraction_results
\* holds no design_tokens, component_catalog or screen_layouts entry, so a
\* following save_outputs reports that there are no results and writes no
\* file.
C13_FatalError ==
    pc = "failed" =>
        /\ status = "error"
        /\ DOMAIN extraction_results \cap {"design_tokens", "component_catalog", "screen_layouts"} = {}
        /\ save_outputs(extraction_results) = [raised |-> "ValueError", files |-> <<>>]

\* C18 (Malformed nodes are skipped locally): extract_all_tokens raises no
\* exception on a node that misses an expected key; once step 1 of
\* extract_all_assets is over, the design_tokens of the document are stored.
C18_MalformedSkipped ==
    pc # "ready" => "design_tokens" \in DOMAIN extraction_results

(***************************************************************************)
(* Properties of the input tree                                            *)
(***************************************************************************)
\* C14 (The input tree is read-only): none of the three analyzer passes
\* modifies the document; at every point of extract_all_assets every node has
\* exactly the keys and values it had when the file was loaded.
C14_InputReadOnly == doc = figma_file

(***************************************************************************)
(* Properties of the screen sizes                                          *)
(***************************************************************************)
\* the bounding box a frame records, if any
RecordedBox(node) ==
    IF "absoluteBoundingBox" \in DOMAIN node THEN node.absoluteBoundingBox
    ELSE IF "boundingBox" \in DOMAIN node THEN node.boundingBox
    ELSE EmptyDict

\* the frame of the page that a screen of the output was made from
FrameOfScreen(screen) ==
    LET frames == figma_file.children[1].children
    IN  frames[CHOOSE i \in 1..Len(frames) : frames[i].name = screen.name]

\* C15 (Screen size invariant): every screen in the output of
\* analyze_all_layouts has a size, and each of width, height, x and y of that
\* size is recorded by the bounding box of its frame; a frame whose box lacks
\* one of them is dropped, not emitted with 0 in its place.
C15_ScreenSize ==
    pc = "done" =>
        \A i \in 1..Len(ScreensOut) :
            /\ "size" \in DOMAIN ScreensOut[i]
            /\ {"width", "height", "x", "y"} \subseteq DOMAIN RecordedBox(FrameOfScreen(ScreensOut[i]))

(***************************************************************************)
(* Properties of the typography tokens of the traversal                    *)
(***************************************************************************)
\* self.typography after the traversal, before _process_typography groups it
TraversedTypography == TE_traverse_document(TokenExtractorInit, figma_file).typography

StandardWeights == {100 * k : k \in 1..9}

Distance(a, b) == IF a >= b THEN a - b ELSE b - a

\* C16 (Font-weight normalization): the font_weight stored in every
\* typography token is one of the nine standard weights 100, 200, .., 900,
\* and for a numeric fontWeight it is a standard weight nearest to the input.
C16_StandardWeights ==
    pc \in {"tokens", "components", "done"} =>
        /\ \A name \in DOMAIN TraversedTypography :
               TraversedTypography[name].font_weight \in StandardWeights
        /\ \A i \in FirstOfName :
               ("fontWeight" \in DOMAIN StyledTexts[i].style /\ ~IsStr(StyledTexts[i].style.fontWeight)) =>
                   \A s \in StandardWeights :
                       Distance(TraversedTypography[BandName(SizeOf(StyledTexts[i]))].font_weight,
                                StyledTexts[i].style.fontWeight.num)
                           <= Distance(s, StyledTexts[i].style.fontWeight.num)

\* C17 (Typography tokens are deduplicated by the (font_size, font_weight)
\* pair): after the traversal the token collection holds exactly one token
\* for each distinct pair of font size and font weight of the TEXT nodes with
\* a style.
C17_DedupBySizeAndWeight ==
    pc \in {"tokens", "components", "done"} =>
        Cardinality(DOMAIN TraversedTypography)
            = Cardinality({<<SizeOf(StyledTexts[i]), WeightOf(StyledTexts[i])>> : i \in 1..Len(StyledTexts)})

(***************************************************************************)
(* Properties of the identification pass                                   *)
(***************************************************************************)
\* the qualification rule as stated: not DOCUMENT or PAGE, and (a) COMPONENT
\* or INSTANCE, (b) a keyword in the lowercased name, (c) a RECTANGLE with
\* cornerRadius > 0, or with fills/strokes and a box within [20,500] both
\* ways, (d) a GROUP of at least 2 children, one a RECTANGLE and a different
\* one TEXT or named with 'icon'
Qualifies(node) ==
    LET node_type == Upper(Get(node, "type", <<>>))
        node_name == Lower(Get(node, "name", <<>>))
        bbox == Get(node, "absoluteBoundingBox", EmptyDict)
        InRange(v) == 20 <= v /\ v <= 500
        children == Get(node, "children", <<>>)
    IN  /\ node_type \notin {s_DOCUMENT, s_PAGE}
        /\ \/ node_type \in {s_COMPONENT, s_INSTANCE}
           \/ AnyPattern(interactive_patterns \cup input_patterns \cup display_patterns, node_name)
           \/ /\ node_type = s_RECTANGLE
              /\ \/ Get(node, "cornerRadius", 0) > 0
                 \/ /\ (Get(node, "fills", <<>>) # <<>> \/ Get(node, "strokes", <<>>) # <<>>)
                    /\ InRange(Get(bbox, "width", 0))
                    /\ InRange(Get(bbox, "height", 0))
           \/ /\ node_type = s_GROUP
              /\ Len(children) >= 2
              /\ \E i, j \in 1..Len(children) :
                    /\ i # j
                    /\ Upper(Get(children[i], "type", <<>>)) = s_RECTANGLE
                    /\ \/ Upper(Get(children[j], "type", <<>>)) = s_TEXT
                       \/ Contains(Lower(Get(children[j], "name", <<>>)), k_icon)

\* C19 (Candidate qualification): the identification pass buckets a node as
\* a candidate component if and only if it qualifies by the rule (a)..(d).
C19_CandidateQualification ==
    pc \in {"components", "done"} =>
        {a.node : a \in Identified} = {p \in Paths(figma_file) : Qualifies(NodeAt(figma_file, p))}

\* a name that cleaning empties: empty, or only a noise prefix in any case
NoiseOnly(name) ==
    \/ name = <<>>
    \/ Lower(name) \in {<<"r", "e", "c", "t">>, <<"e", "l", "l", "i", "p", "s", "e">>,
                        <<"f", "r", "a", "m", "e">>, <<"g", "r", "o", "u", "p">>}

\* C20 (Component name fallback): for every identified node whose name
\* cleaning empties, the catalog holds a component named '{type}-{fingerprint}'
\* with the component's type and the 8-character fingerprint of the node.
C20_NameFallback ==
    pc \in {"components", "done"} =>
        \A a \in Identified :
            NoiseOnly(Get(NodeAt(figma_file, a.node), "name", <<>>)) =>
                \E i \in 1..Len(ComponentsOut) :
                    ComponentsOut[i].name = ComponentsOut[i].type \o <<"-">> \o a.id

(***************************************************************************)
(* Properties of the classification of components                          *)
(***************************************************************************)
\* C21 (Category is decoupled from type): the category of a component of the
\* catalog follows from its final name alone: a name containing 'card' has
\* the category 'cards', and one containing 'badge' and not 'card' has
\* 'badges', whatever the type of the component.
C21_CategoryByName ==
    pc \in {"components", "done"} =>
        \A i \in 1..Len(ComponentsOut) :
            /\ Contains(Lower(ComponentsOut[i].name), k_card) => ComponentsOut[i].category = k_cards
            /\ (Contains(Lower(ComponentsOut[i].name), k_badge) /\ ~Contains(Lower(ComponentsOut[i].name), k_card))
                  => ComponentsOut[i].category = k_badges

\* a name that matches no type keyword, no variant keyword and no category
\* keyword
NoKeyword(name) ==
    /\ ~AnyPattern(interactive_patterns \cup input_patterns \cup display_patterns, Lower(name))
    /\ ~AnyPattern({k_primary, k_main, k_secondary, k_alt, k_outline, k_ghost, k_small, k_sm,
                    k_large, k_lg, k_hover, k_active, k_pressed, k_disabled}, Lower(name))
    /\ ~AnyPattern({k_input, k_field, k_button, k_btn, k_card, k_badge}, Lower(name))

\* C22 (Classification ambiguity falls back to the default bucket): a
\* component whose name matches no keyword, and which is neither a text nor a
\* layout component, is in the catalog with type 'display', the single
\* variant 'default' and category 'general'.
C22_DefaultBucket ==
    pc \in {"components", "done"} =>
        \A i \in 1..Len(ComponentsOut) :
            (NoKeyword(ComponentsOut[i].name) /\ ComponentsOut[i].type \notin {k_text, k_layout}) =>
                /\ ComponentsOut[i].type = k_display
                /\ Len(ComponentsOut[i].variants) = 1
                /\ ComponentsOut[i].variants[1].name = k_default
                /\ ComponentsOut[i].category = k_general

(***************************************************************************)
(* Properties of the manual layout                                         *)
(***************************************************************************)
\* the children of the frame that have an absoluteBoundingBox
BoxedChildren ==
    SelectSeq(figma_file.children[1].children[1].children,
              LAMBDA child : "absoluteBoundingBox" \in DOMAIN child)

RECURSIVE SumOver(_, _)
SumOver(values, i) == IF i > Len(values) THEN 0 ELSE values[i] + SumOver(values, i + 1)

\* n * n times the variance of a sequence of n numbers
ScaledVariance(values) ==
    Len(values) * SumOver([i \in 1..Len(values) |-> values[i] * values[i]], 1)
        - SumOver(values, 1) * SumOver(values, 1)

\* C23 (Manual-layout direction): for a screen without layoutMode in which at
\* least 2 children have bounding boxes, layout.direction is 'horizontal'
\* when the variance of the x positions of these children exceeds the
\* variance of their y positions, and 'vertical' otherwise.
C23_DirectionByVariance ==
    (pc = "done" /\ Len(BoxedChildren) >= 2) =>
        LET xs == [i \in 1..Len(BoxedChildren) |-> BoxedChildren[i].absoluteBoundingBox.x]
            ys == [i \in 1..Len(BoxedChildren) |-> BoxedChildren[i].absoluteBoundingBox.y]
        IN  ScreensOut[1].layout.direction
                = IF ScaledVariance(xs) > ScaledVariance(ys) THEN k_horizontal ELSE k_vertical

\* the 0-based indices of the children that positional inference reads: the
\* children with an absoluteBoundingBox
InferenceIndices ==
    LET children == figma_file.children[1].children[1].children
    IN  {i - 1 : i \in {j \in 1..Len(children) : "absoluteBoundingBox" \in DOMAIN children[j]}}

\* C24 (Unresolvable children are excluded consistently): the children of a
\* screen that are emitted in its child-layout output are the children that
\* positional inference uses, no child without a resolvable size is among
\* them, they are emitted in document order, and a direction is inferred
\* whenever at least 2 children are emitted.
C24_OneResolvabilityRule ==
    pc = "done" =>
        LET emitted == ScreensOut[1].children
            children == figma_file.children[1].children[1].children
        IN  /\ {emitted[k].index : k \in 1..Len(emitted)} = InferenceIndices
            /\ \A k \in 1..Len(emitted) : Resolvable(children[emitted[k].index + 1])
            /\ \A k \in 1..(Len(emitted) - 1) : emitted[k].index < emitted[k + 1].index
            /\ Len(emitted) >= 2 => "direction" \in DOMAIN ScreensOut[1].layout

(***************************************************************************)
(* Properties of the shape of the typography output                        *)
(***************************************************************************)
\* C25 (Shape of the typography output): design_tokens.typography always has
\* the keys fontFamily, fontSizes, fontWeights and lineHeights, also without
\* a TEXT node; every value under fontSizes is the font size of a TEXT node,
\* and the line height of the TEXT nodes (1.4, none of them sets another) is
\* reported under lineHeights.
C25_TypographyShape ==
    pc \in {"tokens", "components", "done"} =>
        /\ DOMAIN TypographyOut = {s_fontFamily, s_fontSizes, s_fontWeights, s_lineHeights}
        /\ \A k \in DOMAIN TypographyOut[s_fontSizes] :
               \E i \in 1..Len(StyledTexts) : TypographyOut[s_fontSizes][k] = SizeOf(StyledTexts[i]) \div 10
        /\ StyledTexts # <<>> =>
               \E k \in DOMAIN TypographyOut[s_lineHeights] : TypographyOut[s_lineHeights][k] = DefaultLineHeight

(***************************************************************************)
(* Properties of the orchestrator                                          *)
(***************************************************************************)
StageKeys == <<"design_tokens", "component_catalog", "screen_layouts">>

\* the results of the stages 1..n
StagesDone(n) == {StageKeys[k] : k \in 1..n}

\* one step of a run: a stage stores its result only when exactly the stages
\* before it have stored theirs, a stored result is not written again, and
\* after a raise nothing more is stored in this run
OrderedStep ==
    /\ \A n \in 1..3 :
          (StageKeys[n] \notin DOMAIN extraction_results /\ StageKeys[n] \in DOMAIN extraction_results')
              => /\ DOMAIN extraction_results = StagesDone(n - 1)
                 /\ DOMAIN extraction_results' = StagesDone(n)
                 /\ status = "none"
    /\ \A key \in DOMAIN extraction_results \cap DOMAIN extraction_results' :
          extraction_results'[key] = extraction_results[key]
    /\ status = "error" => (extraction_results' = extraction_results \/ status' = "none")
    /\ status = "error" => status' # "success"
    /\ status = "success" => status' # "error"

\* C26 (Stage ordering of the orchestrator): extract_all_assets runs the token
\* extractor, then the component parser, then the layout analyzer, each at
\* most once and each after the previous one returned; no stage starts after
\* one has raised; the status is 'success' only when extraction_results holds
\* design_tokens, component_catalog and screen_layouts, and a run never has
\* both 'success' and 'error'.
C26_StageOrdering ==
    /\ [](status = "success" => StagesDone(3) \subseteq DOMAIN extraction_results)
    /\ [][OrderedStep]_vars

\* the layout analyzer has raised after the two stages before it returned
C26_Witness ==
    /\ pc = "failed"
    /\ status = "error"
    /\ DOMAIN extraction_results = StagesDone(2)

(***************************************************************************)
(* Properties of a second analysis on one LayoutAnalyzer                   *)
(***************************************************************************)
\* the LayoutAnalyzer after analyze_all_layouts is called once more on the
\* instance that has analysed the document
SecondCall == analyze_all_layouts(la, doc)

\* C27 as stated (Accumulators are instance state that is never reset): a
\* second call to analyze_all_layouts on the same instance returns every
\* screen of the first call twice, and the spacing pool and grid_systems are
\* doubled.
C27_AccumulatorsDoubled ==
    pc = "done" =>
        /\ build_layout_output(SecondCall).screens
              = extraction_results.screen_layouts.screens \o extraction_results.screen_layouts.screens
        /\ SecondCall.spacing_patterns = la.spacing_patterns \o la.spacing_patterns
        /\ SecondCall.grid_systems = la.grid_systems \o la.grid_systems

\* C27 as amended: the second call returns every screen of the first call
\* twice and doubles the spacing pool; grid_systems is tripled, because the
\* second call detects the grids of all accumulated screens, those of the
\* first call included, and appends them to the grids of the first call.  A
\* freshly constructed instance returns what the first call returned.
C27_AccumulatorsAppended ==
    pc = "done" =>
        /\ build_layout_output(SecondCall).screens
              = extraction_results.screen_layouts.screens \o extraction_results.screen_layouts.screens
        /\ SecondCall.spacing_patterns = la.spacing_patterns \o la.spacing_patterns
        /\ SecondCall.grid_systems = la.grid_systems \o la.grid_systems \o la.grid_systems
        /\ analyze_all_layouts(LayoutAnalyzerInit, doc) = la

\* a document was analysed in which a grid was detected and a gap recorded
C27_Witness ==
    /\ pc = "done"
    /\ la.screens # <<>>
    /\ la.grid_systems # <<>>
    /\ la.spacing_patterns # <<>>
    /\ Len(SecondCall.grid_systems) = 3 * Len(la.grid_systems)

(***************************************************************************)
(* Properties of the common spacing                                        *)
(***************************************************************************)
CommonSpacing == Get(la.layout_patterns, "common_spacing", <<>>)

\* C28 (Cross-screen common_spacing collapses to one cluster): every value of
\* the spacing pool of the layout analyzer is strictly positive;
\* layout_patterns.common_spacing never has more than one entry, and with at
\* least 2 observations it has exactly one, the mean of all observations
\* rounded to 2 decimals.
C28_OneCluster ==
    pc = "done" =>
        LET pool == la.spacing_patterns
            n == Len(pool)
        IN  /\ \A i \in 1..n : pool[i] > 0
            /\ Len(CommonSpacing) <= 1
            /\ n >= 2 =>
                  /\ Len(CommonSpacing) = 1
                  /\ 200 * Abs(CommonSpacing[1].num * n - Sum(pool) * CommonSpacing[1].den)
                        <= CommonSpacing[1].den * n

\* two observations as far apart as 1 and 100 were recorded and reported as
\* one common spacing
C28_Witness ==
    /\ pc = "done"
    /\ \E i, j \in 1..Len(la.spacing_patterns) :
          la.spacing_patterns[i] = 1 /\ la.spacing_patterns[j] = 100
    /\ Len(CommonSpacing) = 1

(***************************************************************************)
(* Properties of the spacing scale                                         *)
(***************************************************************************)
SpacingScale == extraction_results.design_tokens.spacing

PresentSteps == {i \in 1..Len(scale_steps) : scale_steps[i] \in DOMAIN SpacingScale}

\* C29 (The spacing scale is monotone): of two steps present in the result of
\* detect_spacing_pattern, the later one in the order xs .. 8xl has a value
\* greater than or equal to the earlier one's, and every value is strictly
\* less than 4 away from the canonical value of its step.
C29_MonotoneScale ==
    pc \in {"tokens", "components", "done"} =>
        /\ SpacingScale = detect_spacing_pattern(te.all_spacing_values)
        /\ \A i, j \in PresentSteps :
              i < j => SpacingScale[scale_steps[i]] <= SpacingScale[scale_steps[j]]
        /\ \A i \in PresentSteps : Abs(SpacingScale[scale_steps[i]] - common_scales[i]) < 4

\* a scale with some steps absent, two steps of different values and one
\* observed value serving two adjacent steps
C29_Witness ==
    /\ pc = "tokens"
    /\ \E i \in 1..Len(scale_steps) : i \notin PresentSteps
    /\ \E i, j \in PresentSteps : SpacingScale[scale_steps[i]] < SpacingScale[scale_steps[j]]
    /\ \E i \in PresentSteps :
          i + 1 \in PresentSteps /\ SpacingScale[scale_steps[i]] = SpacingScale[scale_steps[i + 1]]

(***************************************************************************)
(* Properties of the file cache                                            *)
(***************************************************************************)
\* the file of the key holds the entry most recently set under the key
HoldsOwnEntry(key) ==
    /\ last_set[key] # None
    /\ cache_files[get_cache_path(key)] = last_set[key]

\* a step of delete(k), called directly or by get(k) on an expired entry,
\* leaves the entry of every other key in place
IsolatedDelete ==
    (last_call'.op \in {"get", "delete"} /\ cache_files' # cache_files) =>
        \A key \in CacheKeys \ {last_call'.key} : HoldsOwnEntry(key) => HoldsOwnEntry(key)'

====
